---- MODULE Spec2Model ----
(***************************************************************************)
(* Model of stress-ng's memthrash stressor (src/stress-memthrash.c) and    *)
(* opcode stressor (src/stress-opcode.c).                                  *)
(*                                                                         *)
(* The module holds several specifications over one set of variables:      *)
(*   SpecCalc     the worker-count arithmetic of stress_memthrash()        *)
(*   SpecDispatch one thread calling the "all" / "random" meta-methods     *)
(*   SpecMethod   the --memthrash-method / --opcode-method option setters  *)
(*   SpecPool     stress_memthrash_child(): arena, thread pool, signals    *)
(*   FairPool     SpecPool with the scheduler's fairness, for liveness     *)
(*   SpecFilter   the seccomp filter program run on a system call number   *)
(*   SpecOpcode   stress_opcode(): the fork loop and the sandbox child     *)
(*   FairOpcode   SpecOpcode with the scheduler's fairness, for liveness   *)
(*   SpecTlb      stress_memthrash_find_primes() and stress_memthrash_tlb()*)
(*   SpecAllRace  the threads of the pool calling stress_memthrash_all()   *)
(*   SpecGen      the opcode generators random, inc, mixed and text        *)
(* A specification leaves the variables of the other ones at their idle    *)
(* values.                                                                 *)
(***************************************************************************)
EXTENDS Integers, Naturals, Sequences, FiniteSets, TLC

VARIABLES
    \* ---- SpecCalc: stress_memthrash() lines 871-888
    instances,          \* args->num_instances
    total_cpus,         \* context.total_cpus
    max_threads,        \* context.max_threads (NoValue until computed)
    optimal,            \* value printed by the "try N instead" hint
    \* ---- SpecDispatch: one caller of the meta-methods
    dpc,                \* position of the caller
    all_i,              \* static size_t i of stress_memthrash_all
    all_runs,           \* times the do-while body ran in this call of "all"
    visited,            \* slots run by "all", one entry per call of "all"
    rnd_i,              \* size_t i of stress_memthrash_random (last draw)
    rnd_draws,          \* draws made in this call of "random"
    rnd_run,            \* methods run in this call of "random"
    via,                \* "all" when "random" was entered from "all"
    \* ---- SpecMethod: option setters
    set_which,          \* which setter was called last
    set_name,           \* its argument
    set_ret,            \* its return value
    memthrash_setting,  \* stored "memthrash-method" setting (a table slot)
    opcode_setting,     \* stored "opcode-method" setting (a table slot)
    \* ---- SpecPool: stress_memthrash_child()
    thread_terminate,   \* static volatile bool thread_terminate
    cpc,                \* position of the controller in stress_memthrash_child
    ci,                 \* its loop index i
    flags_populate,     \* MAP_POPULATE is set in flags
    mem,                \* static void *mem: none, MAP_FAILED, mapped, unmapped
    mmap_log,           \* the mmap calls made: flags used and outcome
    slept,              \* calls of shim_usleep(100000) made
    keep_flag,          \* keep_stressing_flag()
    counter,            \* bogo-op counter of inc_counter(args)
    max_ops,            \* bogo-op budget, 0 for none
    pthread_info,       \* pthread_info[i].ret
    created,            \* pthread_info[i].pthread holds a thread
    join_calls,         \* calls of pthread_join made on slot i
    wpc,                \* position of worker i in stress_memthrash_func
    wj,                 \* its loop index j
    w_after,            \* method calls it began with thread_terminate set
    sigpending,         \* a SIGALRM is pending for the process
    ext_alarm,          \* the timeout SIGALRM was sent
    rc,                 \* return value of stress_memthrash_child
    \* ---- SpecFilter: the kernel running the seccomp filter program
    sys_nr,             \* seccomp_data.nr of the system call being filtered
    bpf_pc,             \* index of the next instruction of filter[]
    bpf_A,              \* accumulator of the BPF machine
    bpf_ret,            \* value returned by the program, "none" while running
    \* ---- SpecOpcode: stress_opcode() and the child it forks
    par,                \* the parent: position, locals, bogo-op bookkeeping
    kid,                \* the forked child: position, locals, process state
    op_page,            \* the shared page of uint64_t *op: none, MAP_FAILED,
                        \*   mapped, unmapped
    op,                 \* *op, the shared opcode counter
    \* ---- SpecTlb: stress_memthrash_find_primes() and stress_memthrash_tlb()
    stress_memthrash_primes, \* static stress_memthrash_primes_t [MEM_SIZE_PRIMES]
    fp_i,               \* loop index i of stress_memthrash_find_primes
    tpc,                \* position in stress_memthrash_tlb
    t_mem_size,         \* its argument mem_size
    t_offset,           \* its local offset
    t_found,            \* the lookup loop found an entry for mem_size
    t_stride,           \* its local prime_stride
    t_j,                \* its loop index j
    t_k,                \* its local k
    \* ---- SpecAllRace: the workers of one pool inside stress_memthrash_all
    apc,                \* position of each worker in stress_memthrash_all
    a_reg,              \* the value of i it holds between a load and a store
    a_idx,              \* the index it called memthrash_methods[] with
    \* ---- SpecGen: one call of an opcode generator
    g_pc,               \* position inside the generator called
    g_func,             \* the generator called
    g_opsize,           \* STRESS_OPCODE_SIZE of the build
    g_page_size,        \* its argument page_size
    g_ops,              \* its pointer ops, a byte offset into opcodes
    g_i,                \* its count-down i
    g_lo,               \* lowest offset of opcodes stored to
    g_hi,               \* end of the highest store to opcodes
    g_tmp,              \* *op as the generator read it, a 64 bit word
    g_block,            \* the eight words the last round of "mixed" stored
    g_text_size,        \* text_end - text_start
    g_rd_lo,            \* lowest offset from text_start read
    g_rd_hi             \* end of the range read from the text

calcVars     == <<instances, total_cpus, max_threads, optimal>>
dispatchVars == <<dpc, all_i, all_runs, visited, rnd_i, rnd_draws, rnd_run, via>>
methodVars   == <<set_which, set_name, set_ret, memthrash_setting, opcode_setting>>
poolVars     == <<thread_terminate, cpc, ci, flags_populate, mem, mmap_log, slept,
                 keep_flag, counter, max_ops, pthread_info, created, join_calls,
                 wpc, wj, w_after, sigpending, ext_alarm, rc>>
filterVars   == <<sys_nr, bpf_pc, bpf_A, bpf_ret>>
opcodeVars   == <<par, kid, op_page, op>>
tlbVars      == <<stress_memthrash_primes, fp_i, tpc, t_mem_size, t_offset, t_found, t_stride, t_j, t_k>>
raceVars     == <<apc, a_reg, a_idx>>
genVars      == <<g_pc, g_func, g_opsize, g_page_size, g_ops, g_i, g_lo, g_hi, g_tmp, g_block, g_text_size, g_rd_lo, g_rd_hi>>
vars         == <<calcVars, dispatchVars, methodVars, poolVars, filterVars,
                 opcodeVars,
                 tlbVars,
                 raceVars,
                 genVars>>

NoValue == -1

(***************************************************************************)
(* Bounds of the model                                                     *)
(***************************************************************************)
MaxInstances == 10      \* largest args->num_instances tried
MaxCpus      == 9       \* largest number of online CPUs tried
MaxAllCalls  == 24      \* calls of "all" made by the single caller
MaxSlice     == 2       \* do-while rounds inside one 10 ms slice of "all"
MaxDraws     == 3       \* draws inside one call of "random"
MaxThreads   == 2       \* largest worker count of the pool
MaxOps       == 2       \* largest bogo-op budget; the counter stops there
MaxMmapTries == 3       \* the arena is mapped at the latest by this try
MaxSyscallNr == 240     \* largest system call number given to the filter
MaxForks     == 2       \* children forked in one run of stress_opcode
MaxForkFails == 1       \* failed fork() calls in one run
PageShift    == 1       \* args->page_size is 2^PageShift bytes (scaled down)
MaxTrialDivisor == 2049 \* largest divisor tried by the primality test
MaxRaceIndex == 24      \* largest value of i the racing workers are let store
MaxGenPageUnits == 2    \* page sizes up to 64 * MaxGenPageUnits bytes
MaxTextSlack == 24      \* bytes of text beyond what the text generator needs
MaxWalkShift == 12      \* the passes over regions up to 4^MaxWalkShift bytes are walked

(***************************************************************************)
(* Program constants                                                       *)
(***************************************************************************)
MWC8_MAX == 255         \* largest value of stress_mwc8()

MATRIX_SIZE_MAX_SHIFT == 14
MATRIX_SIZE_MIN_SHIFT == 10

EXIT_SUCCESS     == 0
EXIT_NO_RESOURCE == 3

ESRCH  == 3
EAGAIN == 11
EINVAL == 22            \* stands for any pthread_create error but EAGAIN

(***************************************************************************)
(* The method tables.  Names are C strings, written as tuples of           *)
(* characters so that strcmp can be modelled character by character.       *)
(***************************************************************************)
memthrash_methods ==
    << [name |-> <<"a","l","l">>,                          func |-> "stress_memthrash_all"],
       [name |-> <<"c","h","u","n","k","1">>,              func |-> "stress_memthrash_random_chunk1"],
       [name |-> <<"c","h","u","n","k","8">>,              func |-> "stress_memthrash_random_chunk8"],
       [name |-> <<"c","h","u","n","k","6","4">>,          func |-> "stress_memthrash_random_chunk64"],
       [name |-> <<"c","h","u","n","k","2","5","6">>,      func |-> "stress_memthrash_random_chunk256"],
       [name |-> <<"c","h","u","n","k","p","a","g","e">>,  func |-> "stress_memthrash_random_chunkpage"],
       [name |-> <<"c","o","p","y","1","2","8">>,          func |-> "stress_memthrash_copy128"],
       [name |-> <<"f","l","i","p">>,                      func |-> "stress_memthrash_flip_mem"],
       [name |-> <<"f","l","u","s","h">>,                  func |-> "stress_memthrash_flush"],
       [name |-> <<"l","o","c","k">>,                      func |-> "stress_memthrash_lock"],
       [name |-> <<"m","a","t","r","i","x">>,              func |-> "stress_memthrash_matrix"],
       [name |-> <<"m","e","m","m","o","v","e">>,          func |-> "stress_memthrash_memmove"],
       [name |-> <<"m","e","m","s","e","t">>,              func |-> "stress_memthrash_memset"],
       [name |-> <<"m","e","m","s","e","t","6","4">>,      func |-> "stress_memthrash_memset64"],
       [name |-> <<"m","f","e","n","c","e">>,              func |-> "stress_memthrash_mfence"],
       [name |-> <<"p","r","e","f","e","t","c","h">>,      func |-> "stress_memthrash_prefetch"],
       [name |-> <<"r","a","n","d","o","m">>,              func |-> "stress_memthrash_random"],
       [name |-> <<"s","p","i","n","r","e","a","d">>,      func |-> "stress_memthrash_spinread"],
       [name |-> <<"s","p","i","n","w","r","i","t","e">>,  func |-> "stress_memthrash_spinwrite"],
       [name |-> <<"s","w","a","p">>,                      func |-> "stress_memthrash_swap"],
       [name |-> <<"s","w","a","p","6","4">>,              func |-> "stress_memthrash_swap64"],
       [name |-> <<"s","w","a","p","f","w","d","r","e","v">>, func |-> "stress_memthrash_swapfwdrev"],
       [name |-> <<"t","l","b">>,                          func |-> "stress_memthrash_tlb"] >>

\* SIZEOF_ARRAY(memthrash_methods); C indexes the table from 0, slot s of
\* the C table is memthrash_methods[s + 1] here.
SIZEOF_memthrash_methods == Len(memthrash_methods)

MemthrashSlots == 0 .. (SIZEOF_memthrash_methods - 1)

MethodAt(s) == memthrash_methods[s + 1]

\* The two entries the spec calls meta-methods.
MetaFuncs == {"stress_memthrash_all", "stress_memthrash_random"}

IsMeta(s) == MethodAt(s).func \in MetaFuncs

\* The table ends with the { NULL, NULL } sentinel, which the loops stop at.
stress_opcode_methods ==
    << [name |-> <<"r","a","n","d","o","m">>, func |-> "stress_opcode_random"],
       [name |-> <<"t","e","x","t">>,         func |-> "stress_opcode_text"],
       [name |-> <<"i","n","c">>,             func |-> "stress_opcode_inc"],
       [name |-> <<"m","i","x","e","d">>,     func |-> "stress_opcode_mixed"],
       [name |-> <<>>,                        func |-> "NULL"] >>

(***************************************************************************)
(* stress_memthrash_max(), stress_memthash_optimal()                       *)
(***************************************************************************)
\* faulty variant: the remainder is dropped, the quotient is not rounded up
stress_memthrash_max_floor(inst, cpus) ==
    IF (inst >= cpus) \/ (inst = 0)
    THEN 1
    ELSE cpus \div inst

\* faulty variant: the quotient is taken one too high before the rounding
stress_memthrash_max_high(inst, cpus) ==
    IF (inst >= cpus) \/ (inst = 0)
    THEN 1
    ELSE LET max == (cpus \div inst) + 1
         IN  IF (cpus % inst) = 0 THEN max ELSE max + 1

\* uint32_t arithmetic: max + 1 <= total_cpus, so nothing wraps
stress_memthrash_max(inst, cpus) ==
    IF (inst >= cpus) \/ (inst = 0)
    THEN 1
    ELSE LET max == cpus \div inst
         IN  IF (cpus % inst) = 0 THEN max ELSE max + 1

RECURSIVE optimal_loop(_, _)
optimal_loop(n, cpus) ==
    IF n > 1
    THEN IF cpus % n = 0 THEN n ELSE optimal_loop(n - 1, cpus)
    ELSE 1

\* faulty variant: the search starts one below the requested count
stress_memthash_optimal_skip(inst, cpus) ==
    optimal_loop(IF inst > 0 THEN inst - 1 ELSE 0, cpus)

stress_memthash_optimal(inst, cpus) == optimal_loop(inst, cpus)

(***************************************************************************)
(* SpecCalc: stress_memthrash() evaluates the two functions on the         *)
(* instance count and the number of online CPUs.                           *)
(***************************************************************************)
InitCalcIdle ==
    /\ instances = 1
    /\ total_cpus = 1
    /\ max_threads = NoValue
    /\ optimal = NoValue

InitCalc ==
    /\ instances \in 0 .. MaxInstances
    /\ total_cpus \in 1 .. MaxCpus
    /\ max_threads = NoValue
    /\ optimal = NoValue

\* context.max_threads = stress_memthrash_max(args->num_instances, context.total_cpus)
CalcMax ==
    /\ max_threads = NoValue
    /\ max_threads' = stress_memthrash_max(instances, total_cpus)
    /\ UNCHANGED <<instances, total_cpus, optimal>>
    /\ UNCHANGED <<dispatchVars, methodVars, poolVars, filterVars, opcodeVars, tlbVars, raceVars, genVars>>

\* stress_memthash_optimal(args->num_instances, context.total_cpus)
CalcOptimal ==
    /\ optimal = NoValue
    /\ optimal' = stress_memthash_optimal(instances, total_cpus)
    /\ UNCHANGED <<instances, total_cpus, max_threads>>
    /\ UNCHANGED <<dispatchVars, methodVars, poolVars, filterVars, opcodeVars, tlbVars, raceVars, genVars>>

NextCalc ==
    \/ CalcMax
    \/ CalcOptimal

\* the least q with q * b >= a, for b >= 1
CeilDiv(a, b) == CHOOSE q \in 0 .. a : (q * b >= a) /\ (q = 0 \/ (q - 1) * b < a)

SetMax(S) == CHOOSE m \in S : \A x \in S : x <= m

\* C1: stress_memthrash_max returns 1 when instances is 0 or is at least
\* total_cpus, and the quotient total_cpus / instances rounded up otherwise;
\* instances = total_cpus gives 1 and (1, 8) gives 8.
C1_MaxIsOneOrCeil ==
    (max_threads # NoValue) =>
        /\ ((instances = 0 \/ instances >= total_cpus) => max_threads = 1)
        /\ ((instances # 0 /\ instances < total_cpus)
                => max_threads = CeilDiv(total_cpus, instances))
        /\ ((instances = total_cpus) => max_threads = 1)
        /\ ((instances = 1 /\ total_cpus = 8) => max_threads = 8)

C1_Witness ==
    /\ instances = 2
    /\ total_cpus = 7
    /\ max_threads = 4

\* C2: for instances w >= 1 and CPUs c >= 1 the worker count times w is at
\* most c + w; with w = 0 the worker count is 1; it is never below 1.
C2_MaxBound ==
    (max_threads # NoValue) =>
        /\ ((instances >= 1 /\ total_cpus >= 1)
                => max_threads * instances <= total_cpus + instances)
        /\ ((instances = 0) => max_threads = 1)
        /\ max_threads >= 1

C2_Witness ==
    /\ max_threads # NoValue
    /\ instances >= 1
    /\ total_cpus % instances # 0
    /\ max_threads * instances > total_cpus
    /\ max_threads > 1

\* C3: stress_memthash_optimal returns the largest divisor of total_cpus
\* that does not exceed instances, and 1 when there is no divisor in
\* 1..instances; the result always divides total_cpus.
C3_OptimalIsLargestDivisor ==
    (optimal # NoValue) =>
        LET D == {d \in 1 .. instances : total_cpus % d = 0}
        IN  /\ total_cpus % optimal = 0
            /\ optimal = (IF D = {} THEN 1 ELSE SetMax(D))
            /\ (D # {} => optimal <= instances)

C3_Witness ==
    /\ optimal # NoValue
    /\ optimal > 1
    /\ optimal < instances
    /\ total_cpus % instances # 0

(***************************************************************************)
(* SpecDispatch: one thread calls the meta-methods "all" and "random"      *)
(* over and over, as the worker loop does with a single worker.            *)
(***************************************************************************)
InitDispatchIdle ==
    /\ dpc = "idle"
    /\ all_i = 1
    /\ all_runs = 0
    /\ visited = <<>>
    /\ rnd_i = 0
    /\ rnd_draws = 0
    /\ rnd_run = 0
    /\ via = "caller"

\* func(args, mem_size) with func = stress_memthrash_all
CallAll ==
    /\ dpc = "idle"
    /\ Len(visited) < MaxAllCalls
    /\ dpc' = "all_do"
    /\ all_runs' = 0
    /\ UNCHANGED <<all_i, visited, rnd_i, rnd_draws, rnd_run, via>>
    /\ UNCHANGED <<calcVars, methodVars, poolVars, filterVars, opcodeVars, tlbVars, raceVars, genVars>>

\* func(args, mem_size) with func = stress_memthrash_random
CallRandom ==
    /\ dpc = "idle"
    /\ dpc' = "rnd_draw"
    /\ rnd_draws' = 0
    /\ rnd_run' = 0
    /\ via' = "caller"
    /\ UNCHANGED <<all_i, all_runs, visited, rnd_i>>
    /\ UNCHANGED <<calcVars, methodVars, poolVars, filterVars, opcodeVars, tlbVars, raceVars, genVars>>

\* do { memthrash_methods[i].func(args, mem_size); ...
AllDo ==
    /\ dpc = "all_do"
    /\ visited' = IF all_runs = 0 THEN Append(visited, all_i) ELSE visited
    /\ all_runs' = all_runs + 1
    /\ IF MethodAt(all_i).func = "stress_memthrash_random"
       THEN /\ dpc' = "rnd_draw"
            /\ rnd_draws' = 0
            /\ rnd_run' = 0
            /\ via' = "all"
       ELSE IF MethodAt(all_i).func = "stress_memthrash_all"
       THEN /\ dpc' = "all_do"          \* calls itself again
            /\ UNCHANGED <<rnd_draws, rnd_run, via>>
       ELSE /\ dpc' = "all_check"
            /\ UNCHANGED <<rnd_draws, rnd_run, via>>
    /\ UNCHANGED <<all_i, rnd_i>>
    /\ UNCHANGED <<calcVars, methodVars, poolVars, filterVars, opcodeVars, tlbVars, raceVars, genVars>>

\* ... } while (!thread_terminate && (stress_time_now() - t < 0.01))
all_continue(terminate, in_slice) == (~terminate) /\ in_slice

AllCheck ==
    /\ dpc = "all_check"
    /\ \E in_slice \in BOOLEAN :
         IF all_continue(thread_terminate, in_slice) /\ all_runs < MaxSlice
         THEN dpc' = "all_do"
         ELSE dpc' = "all_inc"
    /\ UNCHANGED <<all_i, all_runs, visited, rnd_i, rnd_draws, rnd_run, via>>
    /\ UNCHANGED <<calcVars, methodVars, poolVars, filterVars, opcodeVars, tlbVars, raceVars, genVars>>

\* faulty variant: the index wraps to slot 0
all_next_i_zero(i) ==
    IF i + 1 >= SIZEOF_memthrash_methods THEN 0 ELSE i + 1

\* i++; if (i >= SIZEOF_ARRAY(memthrash_methods)) i = 1;
all_next_i(i) ==
    IF i + 1 >= SIZEOF_memthrash_methods THEN 1 ELSE i + 1

AllInc ==
    /\ dpc = "all_inc"
    /\ all_i' = all_next_i(all_i)
    /\ dpc' = "idle"
    /\ UNCHANGED <<all_runs, visited, rnd_i, rnd_draws, rnd_run, via>>
    /\ UNCHANGED <<calcVars, methodVars, poolVars, filterVars, opcodeVars, tlbVars, raceVars, genVars>>

\* faulty variant: only the "random" entry is excluded
random_accepts_all(func) == func # "stress_memthrash_random"

\* (func != stress_memthrash_random) && (func != stress_memthrash_all)
random_accepts(func) ==
    (func # "stress_memthrash_random") /\ (func # "stress_memthrash_all")

\* size_t i = stress_mwc8() % SIZEOF_ARRAY(memthrash_methods); run
\* memthrash_methods[i].func and return unless it is a meta-method.
RndDraw ==
    /\ dpc = "rnd_draw"
    /\ \E r \in 0 .. MWC8_MAX :
         LET i == r % SIZEOF_memthrash_methods
         IN  /\ rnd_i' = i
             /\ rnd_draws' = IF rnd_draws < MaxDraws THEN rnd_draws + 1 ELSE rnd_draws
             /\ IF random_accepts(MethodAt(i).func)
                THEN /\ rnd_run' = rnd_run + 1   \* func(args, mem_size)
                     /\ dpc' = IF via = "all" THEN "all_check" ELSE "idle"
                ELSE /\ dpc' = "rnd_draw"
                     /\ UNCHANGED rnd_run
    /\ UNCHANGED <<all_i, all_runs, visited, via>>
    /\ UNCHANGED <<calcVars, methodVars, poolVars, filterVars, opcodeVars, tlbVars, raceVars, genVars>>

NextDispatch ==
    \/ CallAll
    \/ CallRandom
    \/ AllDo
    \/ AllCheck
    \/ AllInc
    \/ RndDraw

\* the slot the k-th call of "all" runs when the slots 1 .. N-1 are taken
\* in table order, round and round
RotationSlot(k) == ((k - 1) % (SIZEOF_memthrash_methods - 1)) + 1

\* C4 as stated: the calls of "all" run the slots 1, 2, ..., N-1 in table
\* order and start again at 1, never run slot 0, and never run a
\* meta-method.
C4_AllVisitsNoMeta ==
    \A k \in 1 .. Len(visited) :
        /\ visited[k] = RotationSlot(k)
        /\ visited[k] # 0
        /\ ~IsMeta(visited[k])

\* C4 (amended): the calls of "all" take the slots 1, 2, ..., N-1 in table
\* order, one slot per call, and start again at slot 1 after slot N-1, so
\* that N-1 calls take every slot but 0 exactly once; slot 0 ("all") is
\* never taken, and the only meta-method among the slots taken is
\* "random", taken once per round like any other slot.
C4_AllRotation ==
    /\ \A k \in 1 .. Len(visited) :
          /\ visited[k] = RotationSlot(k)
          /\ visited[k] # 0
          /\ (IsMeta(visited[k]) => MethodAt(visited[k]).func = "stress_memthrash_random")
    /\ (Len(visited) >= SIZEOF_memthrash_methods - 1) =>
          \A s \in 1 .. (SIZEOF_memthrash_methods - 1) :
              Cardinality({k \in 1 .. (SIZEOF_memthrash_methods - 1) : visited[k] = s}) = 1

C4_Witness ==
    /\ Len(visited) = SIZEOF_memthrash_methods
    /\ visited[SIZEOF_memthrash_methods] = 1
    /\ dpc = "idle"

\* C5: "random" never runs the "all" or the "random" entry: a draw that
\* lands on one of them is discarded and followed by another draw, and
\* each call of "random" runs exactly one method, a non-meta one.
C5_RandomSkipsMeta ==
    /\ rnd_run <= 1
    /\ (rnd_run = 1) => ~IsMeta(rnd_i)
    /\ (dpc = "rnd_draw" /\ rnd_draws > 0) => (IsMeta(rnd_i) /\ rnd_run = 0)
    /\ (dpc # "rnd_draw" /\ rnd_draws > 0) => (rnd_run = 1)

C5_Witness ==
    /\ rnd_draws = MaxDraws
    /\ rnd_run = 1
    /\ dpc = "idle"
    /\ via = "caller"

(***************************************************************************)
(* C strings and strcmp                                                    *)
(***************************************************************************)
NUL == "NUL"

CharOrder ==
    << "0","1","2","3","4","5","6","7","8","9",
       "A","B","C","D","E","F","G","H","I","J","K","L","M",
       "N","O","P","Q","R","S","T","U","V","W","X","Y","Z",
       "a","b","c","d","e","f","g","h","i","j","k","l","m",
       "n","o","p","q","r","s","t","u","v","w","x","y","z" >>

CharSet == {CharOrder[k] : k \in 1 .. Len(CharOrder)}

CharIndex == [c \in CharSet |-> CHOOSE k \in 1 .. Len(CharOrder) : CharOrder[k] = c]

\* the character codes
CharCode ==
    [c \in CharSet \cup {NUL} |->
        IF c = NUL THEN 0
        ELSE LET k == CharIndex[c]
             IN  IF k <= 10 THEN 47 + k ELSE IF k <= 36 THEN 54 + k ELSE 60 + k]

Ord(c) == CharCode[c]

LowerOf ==
    [c \in CharSet \cup {NUL} |->
        IF c = NUL THEN NUL
        ELSE LET k == CharIndex[c]
             IN  IF k > 10 /\ k <= 36 THEN CharOrder[k + 26] ELSE c]

UpperOf ==
    [c \in CharSet \cup {NUL} |->
        IF c = NUL THEN NUL
        ELSE LET k == CharIndex[c]
             IN  IF k > 36 THEN CharOrder[k - 26] ELSE c]

ToLower(c) == LowerOf[c]

ToUpper(c) == UpperOf[c]

\* the k-th character of the C string s, the terminator after the last one
CharAt(s, k) == IF k <= Len(s) THEN s[k] ELSE NUL

RECURSIVE strcmp_nocase_from(_, _, _)
strcmp_nocase_from(a, b, k) ==
    LET ca == ToLower(CharAt(a, k))
        cb == ToLower(CharAt(b, k))
    IN  IF ca # cb THEN Ord(ca) - Ord(cb)
        ELSE IF ca = NUL THEN 0
        ELSE strcmp_nocase_from(a, b, k + 1)

\* faulty variant: the comparison ignores case (strcasecmp)
strcmp_nocase(a, b) == strcmp_nocase_from(a, b, 1)

RECURSIVE strcmp_from(_, _, _)
strcmp_from(a, b, k) ==
    LET ca == CharAt(a, k)
        cb == CharAt(b, k)
    IN  IF ca # cb THEN Ord(ca) - Ord(cb)
        ELSE IF ca = NUL THEN 0
        ELSE strcmp_from(a, b, k + 1)

strcmp(a, b) == strcmp_from(a, b, 1)

(***************************************************************************)
(* SpecMethod: stress_set_memthrash_method(), stress_set_opcode_method()   *)
(***************************************************************************)
\* for (i = 0; i < SIZEOF_ARRAY(memthrash_methods); i++)
\*     if (!strcmp(memthrash_methods[i].name, name)) ...
RECURSIVE memthrash_method_find(_, _)
memthrash_method_find(name, i) ==
    IF i >= SIZEOF_memthrash_methods THEN NoValue
    ELSE IF strcmp(MethodAt(i).name, name) = 0 THEN i
    ELSE memthrash_method_find(name, i + 1)

\* for (info = stress_opcode_methods; info->func; info++)
\*     if (!strcmp(info->name, name)) ...
RECURSIVE opcode_method_find(_, _)
opcode_method_find(name, i) ==
    IF stress_opcode_methods[i + 1].func = "NULL" THEN NoValue
    ELSE IF strcmp(stress_opcode_methods[i + 1].name, name) = 0 THEN i
    ELSE opcode_method_find(name, i + 1)

MemthrashNames == {memthrash_methods[k].name : k \in 1 .. Len(memthrash_methods)}

OpcodeNames ==
    {stress_opcode_methods[k].name :
        k \in {n \in 1 .. Len(stress_opcode_methods) : stress_opcode_methods[n].func # "NULL"}}

UpperStr(s) == [k \in 1 .. Len(s) |-> ToUpper(s[k])]

CapitalStr(s) == [k \in 1 .. Len(s) |-> IF k = 1 THEN ToUpper(s[k]) ELSE s[k]]

Front(s) == SubSeq(s, 1, Len(s) - 1)

\* the registered names whose variants are tried: the first and the last
\* entry of each table, and a name that extends another one
VariantBase ==
    { <<"a","l","l">>, <<"t","l","b">>, <<"s","w","a","p","6","4">>,
      <<"r","a","n","d","o","m">>, <<"m","i","x","e","d">> }

\* the names tried: every registered name, and the variant names in upper
\* case, capitalised, with the last character cut and with one added
NameInputs ==
    LET R == MemthrashNames \cup OpcodeNames
        V == VariantBase
    IN  R \cup {UpperStr(n) : n \in V} \cup {CapitalStr(n) : n \in V}
          \cup {Front(n) : n \in V} \cup {Append(n, "x") : n \in V}

InitMethodIdle ==
    /\ set_which = "none"
    /\ set_name = <<>>
    /\ set_ret = 0
    /\ memthrash_setting = NoValue
    /\ opcode_setting = NoValue

stress_set_memthrash_method(name) ==
    LET found == memthrash_method_find(name, 0)
    IN  /\ set_which' = "memthrash"
        /\ set_name' = name
        /\ IF found # NoValue
           THEN /\ memthrash_setting' = found     \* stress_set_setting()
                /\ set_ret' = 0
           ELSE /\ set_ret' = -1
                /\ UNCHANGED memthrash_setting
        /\ UNCHANGED opcode_setting

stress_set_opcode_method(name) ==
    LET found == opcode_method_find(name, 0)
    IN  /\ set_which' = "opcode"
        /\ set_name' = name
        /\ IF found # NoValue
           THEN /\ opcode_setting' = found        \* stress_set_setting()
                /\ set_ret' = 0
           ELSE /\ set_ret' = -1
                /\ UNCHANGED opcode_setting
        /\ UNCHANGED memthrash_setting

SetMemthrashMethod ==
    /\ \E name \in NameInputs : stress_set_memthrash_method(name)
    /\ UNCHANGED <<calcVars, dispatchVars, poolVars, filterVars, opcodeVars, tlbVars, raceVars, genVars>>

SetOpcodeMethod ==
    /\ \E name \in NameInputs : stress_set_opcode_method(name)
    /\ UNCHANGED <<calcVars, dispatchVars, poolVars, filterVars, opcodeVars, tlbVars, raceVars, genVars>>

NextMethod ==
    \/ SetMemthrashMethod
    \/ SetOpcodeMethod

\* C6: a setter returns 0 exactly when its argument equals a registered
\* name of its table character for character, and then stores the entry of
\* that name; for every other argument it returns -1 and the stored
\* setting keeps its value.
C6_ExactNameSelects ==
    [][ /\ (set_which' = "memthrash") =>
              /\ (set_ret' = 0) <=> (set_name' \in MemthrashNames)
              /\ (set_ret' = 0) => (MethodAt(memthrash_setting').name = set_name')
              /\ (set_ret' # 0) => (set_ret' = -1 /\ memthrash_setting' = memthrash_setting)
        /\ (set_which' = "opcode") =>
              /\ (set_ret' = 0) <=> (set_name' \in OpcodeNames)
              /\ (set_ret' = 0) => (stress_opcode_methods[opcode_setting' + 1].name = set_name')
              /\ (set_ret' # 0) => (set_ret' = -1 /\ opcode_setting' = opcode_setting)
      ]_vars

C6_Witness ==
    /\ set_which = "memthrash"
    /\ set_name = <<"T","L","B">>
    /\ set_ret = -1
    /\ memthrash_setting = 22
    /\ opcode_setting = 2

(***************************************************************************)
(* SpecPool: stress_memthrash_child() - the controller thread maps the     *)
(* arena, creates max_threads workers running stress_memthrash_func(),     *)
(* waits in pause() and reaps them.  SIGALRM runs                          *)
(* stress_memthrash_sigalrm_handler() in the controller thread (the        *)
(* workers block every signal).  A method call func(args, mem_size) is     *)
(* one step of a worker.                                                   *)
(***************************************************************************)
Slots == 0 .. (max_threads - 1)

\* keep_stressing(args): the flag, and the bogo-op budget when there is one
keep_stressing == keep_flag /\ (max_ops = 0 \/ counter < max_ops)

ProcessAlive == cpc \notin {"returned", "crashed"}

InitPoolIdle ==
    /\ thread_terminate = FALSE
    /\ cpc = "returned"
    /\ ci = 0
    /\ flags_populate = TRUE
    /\ mem = "none"
    /\ mmap_log = <<>>
    /\ slept = 0
    /\ keep_flag = TRUE
    /\ counter = 0
    /\ max_ops = 0
    /\ pthread_info = <<>>
    /\ created = <<>>
    /\ join_calls = <<>>
    /\ wpc = <<>>
    /\ wj = <<>>
    /\ w_after = <<>>
    /\ sigpending = FALSE
    /\ ext_alarm = FALSE
    /\ rc = NoValue

\* the state at the entry of stress_memthrash_child(): one stressor
\* instance on total_cpus CPUs, the worker count taken from
\* stress_memthrash_max(), the bogo-op budget from the command line
InitPool ==
    /\ instances = 1
    /\ total_cpus \in 1 .. MaxThreads
    /\ max_threads = stress_memthrash_max(instances, total_cpus)
    /\ optimal = NoValue
    /\ thread_terminate = FALSE
    /\ cpc = "start"
    /\ ci = 0
    /\ flags_populate = TRUE
    /\ mem = "none"
    /\ mmap_log = <<>>
    /\ slept = 0
    /\ keep_flag = TRUE
    /\ counter = 0
    /\ max_ops \in 0 .. MaxOps
    /\ pthread_info = [s \in 0 .. (total_cpus - 1) |-> 0]
    /\ created = [s \in 0 .. (total_cpus - 1) |-> FALSE]
    /\ join_calls = [s \in 0 .. (total_cpus - 1) |-> 0]
    /\ wpc = [s \in 0 .. (total_cpus - 1) |-> "none"]
    /\ wj = [s \in 0 .. (total_cpus - 1) |-> MATRIX_SIZE_MIN_SHIFT]
    /\ w_after = [s \in 0 .. (total_cpus - 1) |-> 0]
    /\ sigpending = FALSE
    /\ ext_alarm = FALSE
    /\ rc = NoValue

\* pthread_info = calloc(max_threads, ...); stress_sighandler(SIGALRM, ...)
PoolStart ==
    /\ cpc = "start"
    /\ \E ok \in BOOLEAN :
         IF ok
         THEN /\ cpc' = "mmap_retry"
              /\ UNCHANGED rc
         ELSE /\ cpc' = "returned"
              /\ rc' = EXIT_NO_RESOURCE
    /\ UNCHANGED <<thread_terminate, ci, flags_populate, mem, mmap_log, slept,
                   keep_flag, counter, max_ops, pthread_info, created,
                   join_calls, wpc, wj, w_after, sigpending, ext_alarm>>
    /\ UNCHANGED <<calcVars, dispatchVars, methodVars, filterVars, opcodeVars, tlbVars, raceVars, genVars>>

\* the flags after a failed mmap: flags &= ~MAP_POPULATE
flags_after_failure(populate) == FALSE

\* the status returned when mmap failed and a stop is already requested
mmap_giveup_status == EXIT_NO_RESOURCE

\* mmap_retry: mem = mmap(..., flags, ...) and, on failure, the first
\* keep_stressing_flag() test
Mmap ==
    /\ cpc = "mmap_retry"
    /\ \E ok \in BOOLEAN :
         /\ (~ok) => (Len(mmap_log) + 1 < MaxMmapTries)
         /\ mmap_log' = Append(mmap_log, [populate |-> flags_populate, ok |-> ok])
         /\ IF ok
            THEN /\ mem' = "mapped"
                 /\ cpc' = "create"
                 /\ ci' = 0
                 /\ UNCHANGED <<flags_populate, rc>>
            ELSE /\ mem' = "MAP_FAILED"
                 /\ flags_populate' = flags_after_failure(flags_populate)
                 /\ UNCHANGED ci
                 /\ IF ~keep_flag
                    THEN /\ cpc' = "returned"
                         /\ rc' = mmap_giveup_status
                    ELSE /\ cpc' = "usleep"
                         /\ UNCHANGED rc
    /\ UNCHANGED <<thread_terminate, slept, keep_flag, counter, max_ops,
                   pthread_info, created, join_calls, wpc, wj, w_after,
                   sigpending, ext_alarm>>
    /\ UNCHANGED <<calcVars, dispatchVars, methodVars, filterVars, opcodeVars, tlbVars, raceVars, genVars>>

\* shim_usleep(100000); if (!keep_stressing_flag()) goto reap_mem;
\* goto mmap_retry;
Usleep ==
    /\ cpc = "usleep"
    /\ slept' = slept + 1
    /\ cpc' = IF ~keep_flag THEN "reap_mem" ELSE "mmap_retry"
    /\ UNCHANGED <<thread_terminate, ci, flags_populate, mem, mmap_log,
                   keep_flag, counter, max_ops, pthread_info, created,
                   join_calls, wpc, wj, w_after, sigpending, ext_alarm, rc>>
    /\ UNCHANGED <<calcVars, dispatchVars, methodVars, filterVars, opcodeVars, tlbVars, raceVars, genVars>>

\* pthread_info[i].ret = pthread_create(...) and the tests of the result
Create ==
    /\ cpc = "create"
    /\ ci < max_threads
    /\ \E r \in {0, EAGAIN, EINVAL} :
         /\ pthread_info' = [pthread_info EXCEPT ![ci] = r]
         /\ IF r = 0
            THEN /\ created' = [created EXCEPT ![ci] = TRUE]
                 /\ wpc' = [wpc EXCEPT ![ci] = "w_while"]
                 /\ cpc' = "created"
                 /\ UNCHANGED ci
            ELSE IF r = EAGAIN
            THEN /\ ci' = ci + 1                \* continue
                 /\ UNCHANGED <<created, wpc, cpc>>
            ELSE /\ cpc' = "reap"               \* goto reap
                 /\ UNCHANGED <<created, wpc, ci>>
    /\ UNCHANGED <<thread_terminate, flags_populate, mem, mmap_log, slept,
                   keep_flag, counter, max_ops, join_calls, wj, w_after,
                   sigpending, ext_alarm, rc>>
    /\ UNCHANGED <<calcVars, dispatchVars, methodVars, filterVars, opcodeVars, tlbVars, raceVars, genVars>>

\* if (!keep_stressing_flag()) goto reap;  and the i++ of the loop
CreateCheck ==
    /\ cpc = "created"
    /\ IF ~keep_flag
       THEN /\ cpc' = "reap"
            /\ UNCHANGED ci
       ELSE /\ cpc' = "create"
            /\ ci' = ci + 1
    /\ UNCHANGED <<thread_terminate, flags_populate, mem, mmap_log, slept,
                   keep_flag, counter, max_ops, pthread_info, created,
                   join_calls, wpc, wj, w_after, sigpending, ext_alarm, rc>>
    /\ UNCHANGED <<calcVars, dispatchVars, methodVars, filterVars, opcodeVars, tlbVars, raceVars, genVars>>

\* the loop is over: (void)pause();  the controller now sleeps until a
\* signal handler has run
EnterPause ==
    /\ cpc = "create"
    /\ ci >= max_threads
    /\ cpc' = "pause"
    /\ UNCHANGED <<thread_terminate, ci, flags_populate, mem, mmap_log, slept,
                   keep_flag, counter, max_ops, pthread_info, created,
                   join_calls, wpc, wj, w_after, sigpending, ext_alarm, rc>>
    /\ UNCHANGED <<calcVars, dispatchVars, methodVars, filterVars, opcodeVars, tlbVars, raceVars, genVars>>

\* reap: thread_terminate = true;
Reap ==
    /\ cpc = "reap"
    /\ thread_terminate' = TRUE
    /\ ci' = 0
    /\ cpc' = "join"
    /\ UNCHANGED <<flags_populate, mem, mmap_log, slept, keep_flag, counter,
                   max_ops, pthread_info, created, join_calls, wpc, wj,
                   w_after, sigpending, ext_alarm, rc>>
    /\ UNCHANGED <<calcVars, dispatchVars, methodVars, filterVars, opcodeVars, tlbVars, raceVars, genVars>>

\* faulty variant: the test of the reap loop is inverted
join_wanted_inverted(s) == pthread_info[s] # 0

\* the slots the reap loop calls pthread_join on: if (!pthread_info[i].ret)
join_wanted(s) == pthread_info[s] = 0

\* pthread_join of a worker that was created: returns 0 once it has exited
JoinCreated ==
    /\ cpc = "join"
    /\ ci < max_threads
    /\ join_wanted(ci)
    /\ created[ci]
    /\ wpc[ci] = "w_done"
    /\ join_calls' = [join_calls EXCEPT ![ci] = @ + 1]
    /\ pthread_info' = [pthread_info EXCEPT ![ci] = 0]
    /\ ci' = ci + 1
    /\ UNCHANGED <<thread_terminate, cpc, flags_populate, mem, mmap_log, slept,
                   keep_flag, counter, max_ops, created, wpc, wj, w_after,
                   sigpending, ext_alarm, rc>>
    /\ UNCHANGED <<calcVars, dispatchVars, methodVars, filterVars, opcodeVars, tlbVars, raceVars, genVars>>

\* pthread_join on the zeroed handle of a slot pthread_create was never
\* called for: undefined, it fails with ESRCH or it faults
JoinNeverCreated ==
    /\ cpc = "join"
    /\ ci < max_threads
    /\ join_wanted(ci)
    /\ ~created[ci]
    /\ join_calls' = [join_calls EXCEPT ![ci] = @ + 1]
    /\ \E fault \in BOOLEAN :
         IF fault
         THEN /\ cpc' = "crashed"
              /\ UNCHANGED <<pthread_info, ci>>
         ELSE /\ pthread_info' = [pthread_info EXCEPT ![ci] = ESRCH]
              /\ ci' = ci + 1
              /\ UNCHANGED cpc
    /\ UNCHANGED <<thread_terminate, flags_populate, mem, mmap_log, slept,
                   keep_flag, counter, max_ops, created, wpc, wj, w_after,
                   sigpending, ext_alarm, rc>>
    /\ UNCHANGED <<calcVars, dispatchVars, methodVars, filterVars, opcodeVars, tlbVars, raceVars, genVars>>

\* a slot whose pthread_create failed is passed over
JoinSkip ==
    /\ cpc = "join"
    /\ ci < max_threads
    /\ ~join_wanted(ci)
    /\ ci' = ci + 1
    /\ UNCHANGED <<thread_terminate, cpc, flags_populate, mem, mmap_log, slept,
                   keep_flag, counter, max_ops, pthread_info, created,
                   join_calls, wpc, wj, w_after, sigpending, ext_alarm, rc>>
    /\ UNCHANGED <<calcVars, dispatchVars, methodVars, filterVars, opcodeVars, tlbVars, raceVars, genVars>>

JoinDone ==
    /\ cpc = "join"
    /\ ci >= max_threads
    /\ cpc' = "reap_mem"
    /\ UNCHANGED <<thread_terminate, ci, flags_populate, mem, mmap_log, slept,
                   keep_flag, counter, max_ops, pthread_info, created,
                   join_calls, wpc, wj, w_after, sigpending, ext_alarm, rc>>
    /\ UNCHANGED <<calcVars, dispatchVars, methodVars, filterVars, opcodeVars, tlbVars, raceVars, genVars>>

\* reap_mem: munmap(mem, MEM_SIZE); free(pthread_info); return EXIT_SUCCESS;
ReapMem ==
    /\ cpc = "reap_mem"
    /\ mem' = IF mem = "mapped" THEN "unmapped" ELSE mem
    /\ rc' = EXIT_SUCCESS
    /\ cpc' = "returned"
    /\ UNCHANGED <<thread_terminate, ci, flags_populate, mmap_log, slept,
                   keep_flag, counter, max_ops, pthread_info, created,
                   join_calls, wpc, wj, w_after, sigpending, ext_alarm>>
    /\ UNCHANGED <<calcVars, dispatchVars, methodVars, filterVars, opcodeVars, tlbVars, raceVars, genVars>>

\* ---- stress_memthrash_func(), worker of slot s
\* while (!thread_terminate && keep_stressing(args)) {
WWhile(s) ==
    /\ ProcessAlive
    /\ wpc[s] = "w_while"
    /\ IF (~thread_terminate) /\ keep_stressing
       THEN /\ wj' = [wj EXCEPT ![s] = MATRIX_SIZE_MIN_SHIFT]
            /\ wpc' = [wpc EXCEPT ![s] = "w_for"]
       ELSE /\ wpc' = [wpc EXCEPT ![s] = "w_kill"]
            /\ UNCHANGED wj
    /\ UNCHANGED <<thread_terminate, cpc, ci, flags_populate, mem, mmap_log,
                   slept, keep_flag, counter, max_ops, pthread_info, created,
                   join_calls, w_after, sigpending, ext_alarm, rc>>
    /\ UNCHANGED <<calcVars, dispatchVars, methodVars, filterVars, opcodeVars, tlbVars, raceVars, genVars>>

\* for (j = MIN_SHIFT; j <= MAX_SHIFT && !thread_terminate && keep_stressing(args); j++) {
WFor(s) ==
    /\ ProcessAlive
    /\ wpc[s] = "w_for"
    /\ IF (wj[s] <= MATRIX_SIZE_MAX_SHIFT) /\ (~thread_terminate) /\ keep_stressing
       THEN wpc' = [wpc EXCEPT ![s] = "w_call"]
       ELSE wpc' = [wpc EXCEPT ![s] = "w_while"]
    /\ UNCHANGED <<thread_terminate, cpc, ci, flags_populate, mem, mmap_log,
                   slept, keep_flag, counter, max_ops, pthread_info, created,
                   join_calls, wj, w_after, sigpending, ext_alarm, rc>>
    /\ UNCHANGED <<calcVars, dispatchVars, methodVars, filterVars, opcodeVars, tlbVars, raceVars, genVars>>

\* func(args, mem_size); inc_counter(args); shim_sched_yield(); j++
WCall(s) ==
    /\ ProcessAlive
    /\ wpc[s] = "w_call"
    /\ w_after' = [w_after EXCEPT ![s] = IF thread_terminate THEN @ + 1 ELSE @]
    /\ counter' = IF counter < MaxOps THEN counter + 1 ELSE counter
    /\ wj' = [wj EXCEPT ![s] = @ + 1]
    /\ wpc' = [wpc EXCEPT ![s] = "w_for"]
    /\ UNCHANGED <<thread_terminate, cpc, ci, flags_populate, mem, mmap_log,
                   slept, keep_flag, max_ops, pthread_info, created,
                   join_calls, sigpending, ext_alarm, rc>>
    /\ UNCHANGED <<calcVars, dispatchVars, methodVars, filterVars, opcodeVars, tlbVars, raceVars, genVars>>

\* (void)kill(args->pid, SIGALRM); return &nowt;
WKill(s) ==
    /\ ProcessAlive
    /\ wpc[s] = "w_kill"
    /\ sigpending' = TRUE
    /\ wpc' = [wpc EXCEPT ![s] = "w_done"]
    /\ UNCHANGED <<thread_terminate, cpc, ci, flags_populate, mem, mmap_log,
                   slept, keep_flag, counter, max_ops, pthread_info, created,
                   join_calls, wj, w_after, ext_alarm, rc>>
    /\ UNCHANGED <<calcVars, dispatchVars, methodVars, filterVars, opcodeVars, tlbVars, raceVars, genVars>>

\* ---- signals
\* faulty variant: the handler flips the flag
stress_memthrash_sigalrm_handler_toggle(terminate) == ~terminate

\* stress_memthrash_sigalrm_handler(): thread_terminate = true;  the value
\* the flag has after the handler, given the value it had before
stress_memthrash_sigalrm_handler(terminate) == TRUE

\* stress_memthrash_sigalrm_handler() runs in the controller; a pause()
\* in progress returns when the handler has returned
HandleAlarm ==
    /\ ProcessAlive
    /\ cpc # "start"
    /\ sigpending
    /\ sigpending' = FALSE
    /\ thread_terminate' = stress_memthrash_sigalrm_handler(thread_terminate)
    /\ cpc' = IF cpc = "pause" THEN "reap" ELSE cpc
    /\ UNCHANGED <<ci, flags_populate, mem, mmap_log, slept, keep_flag,
                   counter, max_ops, pthread_info, created, join_calls, wpc,
                   wj, w_after, ext_alarm, rc>>
    /\ UNCHANGED <<calcVars, dispatchVars, methodVars, filterVars, opcodeVars, tlbVars, raceVars, genVars>>

\* the run's timeout: a SIGALRM from outside the pool
ExtAlarm ==
    /\ ProcessAlive
    /\ cpc # "start"
    /\ ~ext_alarm
    /\ ext_alarm' = TRUE
    /\ sigpending' = TRUE
    /\ UNCHANGED <<thread_terminate, cpc, ci, flags_populate, mem, mmap_log,
                   slept, keep_flag, counter, max_ops, pthread_info, created,
                   join_calls, wpc, wj, w_after, rc>>
    /\ UNCHANGED <<calcVars, dispatchVars, methodVars, filterVars, opcodeVars, tlbVars, raceVars, genVars>>

\* SIGINT, SIGHUP, ...: the host's handler clears the keep-stressing flag;
\* it too ends a pause() in progress
StopRequest ==
    /\ ProcessAlive
    /\ keep_flag
    /\ keep_flag' = FALSE
    /\ cpc' = IF cpc = "pause" THEN "reap" ELSE cpc
    /\ UNCHANGED <<thread_terminate, ci, flags_populate, mem, mmap_log, slept,
                   counter, max_ops, pthread_info, created, join_calls, wpc,
                   wj, w_after, sigpending, ext_alarm, rc>>
    /\ UNCHANGED <<calcVars, dispatchVars, methodVars, filterVars, opcodeVars, tlbVars, raceVars, genVars>>

Controller ==
    \/ PoolStart
    \/ Mmap
    \/ Usleep
    \/ Create
    \/ CreateCheck
    \/ EnterPause
    \/ Reap
    \/ JoinCreated
    \/ JoinNeverCreated
    \/ JoinSkip
    \/ JoinDone
    \/ ReapMem

Worker(s) ==
    \/ WWhile(s)
    \/ WFor(s)
    \/ WCall(s)
    \/ WKill(s)

NextPool ==
    \/ Controller
    \/ \E s \in Slots : Worker(s)
    \/ HandleAlarm
    \/ ExtAlarm
    \/ StopRequest


(***************************************************************************)
(* SpecFilter: the classic-BPF program filter[] of stress-opcode.c, run by  *)
(* the kernel on the number of every system call of a sandbox child.       *)
(* An instruction is a struct sock_filter {code, jt, jf, k}.                *)
(***************************************************************************)
NR_write      == 1      \* __NR_write (x86-64)
NR_exit_group == 231    \* __NR_exit_group (x86-64)

SYSCALL_NR == "nr"      \* offsetof(struct seccomp_data, nr)

SECCOMP_RET_ALLOW == "SECCOMP_RET_ALLOW"
SECCOMP_RET_TRAP  == "SECCOMP_RET_TRAP"

BPF_STMT(code, k) == [code |-> code, jt |-> 0, jf |-> 0, k |-> k]

BPF_JUMP(code, k, jt, jf) == [code |-> code, jt |-> jt, jf |-> jf, k |-> k]

\* faulty variant: the two jump offsets are exchanged
ALLOW_SYSCALL_swapped(syscall) ==
    << BPF_JUMP("BPF_JMP+BPF_JEQ+BPF_K", syscall, 1, 0),
       BPF_STMT("BPF_RET+BPF_K", SECCOMP_RET_ALLOW) >>

\* #define ALLOW_SYSCALL(syscall): compare and return ALLOW on a match
ALLOW_SYSCALL(syscall) ==
    << BPF_JUMP("BPF_JMP+BPF_JEQ+BPF_K", syscall, 0, 1),
       BPF_STMT("BPF_RET+BPF_K", SECCOMP_RET_ALLOW) >>

\* static struct sock_filter filter[] (a build with __NR_exit_group)
filter ==
    << BPF_STMT("BPF_LD+BPF_W+BPF_ABS", SYSCALL_NR) >>
    \o ALLOW_SYSCALL(NR_exit_group)
    \o ALLOW_SYSCALL(NR_write)
    \o << BPF_STMT("BPF_RET+BPF_K", SECCOMP_RET_TRAP) >>

\* prog.len = SIZEOF_ARRAY(filter)
prog_len == Len(filter)

\* one instruction of the BPF machine on seccomp_data with the given nr:
\* the machine state after the instruction at index pc (0-based)
bpf_step(insn, pc, A, nr) ==
    IF insn.code = "BPF_LD+BPF_W+BPF_ABS"
    THEN [pc |-> pc + 1, A |-> nr, ret |-> "none"]
    ELSE IF insn.code = "BPF_JMP+BPF_JEQ+BPF_K"
    THEN [pc |-> pc + 1 + (IF A = insn.k THEN insn.jt ELSE insn.jf),
          A |-> A, ret |-> "none"]
    ELSE [pc |-> pc, A |-> A, ret |-> insn.k]

RECURSIVE bpf_run_from(_, _, _)
bpf_run_from(pc, A, nr) ==
    LET st == bpf_step(filter[pc + 1], pc, A, nr)
    IN  IF st.ret # "none" THEN st.ret ELSE bpf_run_from(st.pc, st.A, nr)

\* the value the installed program returns for system call number nr
seccomp_run_filter(nr) == bpf_run_from(0, 0, nr)

InitFilterIdle ==
    /\ sys_nr = NoValue
    /\ bpf_pc = 0
    /\ bpf_A = 0
    /\ bpf_ret = "none"

\* a system call of the child enters the kernel with its number
InitFilter ==
    /\ sys_nr \in 0 .. MaxSyscallNr
    /\ bpf_pc = 0
    /\ bpf_A = 0
    /\ bpf_ret = "none"

\* the kernel runs the next instruction of the program
BpfInsn ==
    /\ bpf_ret = "none"
    /\ bpf_pc < prog_len
    /\ LET st == bpf_step(filter[bpf_pc + 1], bpf_pc, bpf_A, sys_nr)
       IN  /\ bpf_pc' = st.pc
           /\ bpf_A' = st.A
           /\ bpf_ret' = st.ret
    /\ UNCHANGED sys_nr
    /\ UNCHANGED <<calcVars, dispatchVars, methodVars, poolVars, opcodeVars, tlbVars, raceVars, genVars>>

NextFilter == BpfInsn

\* C14: the filter program returns ALLOW exactly for the numbers of
\* exit_group and write, and TRAP for every other system call number.
C14_FilterAllowsExitAndWrite ==
    (bpf_ret # "none") =>
        /\ bpf_ret \in {SECCOMP_RET_ALLOW, SECCOMP_RET_TRAP}
        /\ (bpf_ret = SECCOMP_RET_ALLOW) <=> (sys_nr \in {NR_exit_group, NR_write})

C14_Witness ==
    /\ sys_nr = NR_write
    /\ bpf_ret = SECCOMP_RET_ALLOW

(***************************************************************************)
(* SpecOpcode: stress_opcode() - the parent maps the shared counter page,  *)
(* then forks one child per loop round and waits for it; the child builds  *)
(* the guarded buffer, has the selected generator fill it, and calls into  *)
(* it.  The parent and the child are the records par and kid; the child's  *)
(* memory is its own but for the MAP_SHARED page of *op.                   *)
(***************************************************************************)
PAGES == 16

EXIT_FAILURE == 1

EINTR  == 4
ENOMEM == 12
ENOSYS == 38            \* stands for any fork() error that is not transient

NR_rt_sigprocmask == 14 \* __NR_rt_sigprocmask (x86-64)
NR_seccomp == 317       \* __NR_seccomp (x86-64)

\* STRESS_OPCODE_SIZE of the builds modelled here
OpcodeSizes == {8, 16}

\* the "opcode-method" settings tried: "random" (the default) and "inc"
OpcodeSettings == {0, 2}

\* args->num_instances of the runs modelled; the instance is the last one
OpInstances == 2

\* static const int sigs[]
sigs ==
    << "SIGILL", "SIGTRAP", "SIGFPE", "SIGBUS", "SIGSEGV", "SIGIOT",
       "SIGEMT", "SIGALRM", "SIGINT", "SIGHUP", "SIGSYS" >>

SIZEOF_sigs == Len(sigs)

\* const size_t opcode_bytes = STRESS_OPCODE_SIZE >> 3;
opcode_bytes == par.size \div 8

\* const size_t opcode_loops = page_size / opcode_bytes;
opcode_loops == par.page_size \div opcode_bytes

\* STRESS_OPCODE_MASK + 1
OpcodeModulus == 2 ^ par.size

\* op_start = (pow(2.0, STRESS_OPCODE_SIZE) * instance) / num_instances
op_start(size, instance, num_instances) == ((2 ^ size) * instance) \div num_instances

opcode_method_name == stress_opcode_methods[par.method + 1].name

\* keep_stressing(args) of the parent
o_keep_stressing == par.keep_flag /\ (par.max_ops = 0 \/ par.counter < par.max_ops)

\* the errno values fork() fails with that count as transient
TransientForkErrnos == {EAGAIN, EINTR, ENOMEM}

ForkErrnos == TransientForkErrnos \cup {ENOSYS}

\* stress_redo_fork(errno): a transient failure is retried until a stop is
\* requested
stress_redo_fork(err, keep) == keep /\ (err \in TransientForkErrnos)

KidNone ==
    [ pc |-> "none",            \* position in the child branch
      i |-> 0,                  \* size_t i
      dumpable |-> TRUE,        \* core dumps are enabled
      caps_dropped |-> FALSE,
      handlers |-> 0,           \* sigs[0 .. handlers-1] run stress_badhandler
      timer_armed |-> FALSE,    \* ITIMER_REAL runs with a 50 ms interval
      filter_installed |-> FALSE,
      tampered |-> FALSE,       \* generated code changed the signal set-up
      prot |-> << >>,           \* protection of each page of opcodes
      mem |-> << >>,            \* bytes of opcodes
      ops_begin |-> 0,          \* byte offset of ops_begin in opcodes
      steps |-> << >>,          \* the set-up steps done, in order
      executed |-> 0,           \* calls made into the buffer
      status |-> "none",        \* how the child ended
      failed |-> "none",        \* the set-up call that failed, if one did
      reaped |-> FALSE ]        \* a waitpid of the parent returned its pid

ParIdle ==
    [ pc |-> "returned", rc |-> NoValue, size |-> 8, page_size |-> 2 ^ PageShift,
      method |-> 0, instance |-> 0, num_instances |-> 1, keep_flag |-> TRUE,
      counter |-> 0, max_ops |-> 0, forks |-> 0, fork_fails |-> 0,
      fork_errno |-> 0, last_fork |-> "none", fork_keep |-> TRUE,
      op_at_fork |-> << >>, wait_errno |-> 0 ]

InitOpcodeIdle ==
    /\ par = ParIdle
    /\ kid = KidNone
    /\ op_page = "none"
    /\ op = 0

\* the state at the entry of stress_opcode(): the build's opcode size, the
\* method of the "opcode-method" setting, the instance numbers and the
\* bogo-op budget of the command line
InitOpcode ==
    /\ \E size \in OpcodeSizes, method \in OpcodeSettings,
          inst \in {OpInstances - 1}, budget \in 0 .. 1 :
            par = [ParIdle EXCEPT !.pc = "start", !.size = size,
                                  !.method = method, !.instance = inst,
                                  !.num_instances = OpInstances,
                                  !.max_ops = budget]
    /\ kid = KidNone
    /\ op_page = "none"
    /\ op = 0

\* op = mmap(NULL, page_size, ..., MAP_ANONYMOUS | MAP_SHARED, -1, 0);
\* *op = (uint64_t)op_start;
OpMmap ==
    /\ par.pc = "start"
    /\ \E ok \in BOOLEAN :
         IF ok
         THEN /\ op_page' = "mapped"
              /\ op' = op_start(par.size, par.instance, par.num_instances)
              /\ par' = [par EXCEPT !.pc = "do"]
         ELSE /\ op_page' = "MAP_FAILED"
              /\ par' = [par EXCEPT !.pc = "returned", !.rc = EXIT_NO_RESOURCE]
              /\ UNCHANGED op
    /\ UNCHANGED kid
    /\ UNCHANGED <<calcVars, dispatchVars, methodVars, poolVars, filterVars, tlbVars, raceVars, genVars>>

\* do { (void)stress_mwc32(); ... stress_set_proc_name(buf);
OpDo ==
    /\ par.pc = "do"
    /\ par' = [par EXCEPT !.pc = "again"]
    /\ UNCHANGED <<kid, op_page, op>>
    /\ UNCHANGED <<calcVars, dispatchVars, methodVars, poolVars, filterVars, tlbVars, raceVars, genVars>>

\* faulty variant: the failure is not reported
fork_failure_rc_success == EXIT_SUCCESS

\* the status stress_opcode returns after a fork failure that is not retried
\* while the stressor is still to keep stressing
fork_failure_rc == EXIT_NO_RESOURCE

\* again: pid = fork(); and the pid < 0 branch
OpFork ==
    /\ par.pc = "again"
    /\ \/ /\ par.forks < MaxForks
          /\ par' = [par EXCEPT !.pc = "wait", !.forks = @ + 1,
                                !.last_fork = "ok", !.fork_errno = 0,
                                !.op_at_fork = Append(@, op)]
          /\ kid' = [KidNone EXCEPT !.pc = "c_dumpable"]
       \/ /\ par.fork_fails < MaxForkFails
          /\ \E err \in ForkErrnos :
               par' = [par EXCEPT
                         !.fork_fails = @ + 1,
                         !.fork_errno = err,
                         !.last_fork = IF stress_redo_fork(err, par.keep_flag)
                                       THEN "retried" ELSE "gaveup",
                         !.fork_keep = o_keep_stressing,
                         !.pc = IF stress_redo_fork(err, par.keep_flag) THEN "again"
                                ELSE IF ~o_keep_stressing THEN "finish"
                                ELSE "err",
                         !.rc = IF (~stress_redo_fork(err, par.keep_flag)) /\ o_keep_stressing
                                THEN fork_failure_rc ELSE @]
          /\ UNCHANGED kid
    /\ UNCHANGED <<op_page, op>>
    /\ UNCHANGED <<calcVars, dispatchVars, methodVars, poolVars, filterVars, tlbVars, raceVars, genVars>>

ChildAlive == kid.pc \notin {"none", "c_dead"}

\* ret = shim_waitpid(pid, &status, 0) returns the pid once the child has
\* ended
OpWait ==
    /\ par.pc = "wait"
    /\ kid.pc = "c_dead"
    /\ kid' = [kid EXCEPT !.reaped = TRUE]
    /\ par' = [par EXCEPT !.pc = "count", !.wait_errno = 0]
    /\ UNCHANGED <<op_page, op>>
    /\ UNCHANGED <<calcVars, dispatchVars, methodVars, poolVars, filterVars, tlbVars, raceVars, genVars>>

\* ret = shim_waitpid(pid, &status, 0) fails: ret < 0, with EINTR when a
\* signal interrupted it
OpWaitFail ==
    /\ par.pc = "wait"
    /\ \E err \in {EINTR, EINVAL} :
         par' = [par EXCEPT !.pc = "kill", !.wait_errno = err]
    /\ UNCHANGED <<kid, op_page, op>>
    /\ UNCHANGED <<calcVars, dispatchVars, methodVars, poolVars, filterVars, tlbVars, raceVars, genVars>>

\* faulty variant: the child is not killed before the second wait
OpKill_nokill ==
    /\ par.pc = "kill"
    /\ par' = [par EXCEPT !.pc = "rewait", !.wait_errno = 0]
    /\ UNCHANGED <<kid, op_page, op>>
    /\ UNCHANGED <<calcVars, dispatchVars, methodVars, poolVars, filterVars, tlbVars, raceVars, genVars>>

\* (void)kill(pid, SIGTERM); (void)kill(pid, SIGKILL);
OpKill ==
    /\ par.pc = "kill"
    /\ par' = [par EXCEPT !.pc = "rewait", !.wait_errno = 0]
    /\ IF ChildAlive
       THEN \E sig \in {"SIGTERM", "SIGKILL"} :
               kid' = [kid EXCEPT !.pc = "c_dead", !.status = sig]
       ELSE UNCHANGED kid
    /\ UNCHANGED <<op_page, op>>
    /\ UNCHANGED <<calcVars, dispatchVars, methodVars, poolVars, filterVars, tlbVars, raceVars, genVars>>

\* (void)shim_waitpid(pid, &status, 0);  the child is dead by now
OpRewait ==
    /\ par.pc = "rewait"
    /\ par' = [par EXCEPT !.pc = "count"]
    /\ \E ok \in BOOLEAN : kid' = [kid EXCEPT !.reaped = (@ \/ ok)]
    /\ UNCHANGED <<op_page, op>>
    /\ UNCHANGED <<calcVars, dispatchVars, methodVars, poolVars, filterVars, tlbVars, raceVars, genVars>>

\* faulty variant: only a child that exited with status 0 is counted
counter_after_child_ok_only(count, status) ==
    IF status = "exit_0" THEN count + 1 ELSE count

\* inc_counter(args) after the wait: the bogo-op counter after a child
\* that ended with the given status
counter_after_child(count, status) == count + 1

\* inc_counter(args);
OpCount ==
    /\ par.pc = "count"
    /\ par' = [par EXCEPT !.pc = "while",
                          !.counter = counter_after_child(@, kid.status)]
    /\ UNCHANGED <<kid, op_page, op>>
    /\ UNCHANGED <<calcVars, dispatchVars, methodVars, poolVars, filterVars, tlbVars, raceVars, genVars>>

\* } while (keep_stressing(args));
OpWhile ==
    /\ par.pc = "while"
    /\ par' = [par EXCEPT !.pc = IF o_keep_stressing THEN "do" ELSE "finish"]
    /\ UNCHANGED <<kid, op_page, op>>
    /\ UNCHANGED <<calcVars, dispatchVars, methodVars, poolVars, filterVars, tlbVars, raceVars, genVars>>

\* finish: rc = EXIT_SUCCESS;
OpFinish ==
    /\ par.pc = "finish"
    /\ par' = [par EXCEPT !.pc = "err", !.rc = EXIT_SUCCESS]
    /\ UNCHANGED <<kid, op_page, op>>
    /\ UNCHANGED <<calcVars, dispatchVars, methodVars, poolVars, filterVars, tlbVars, raceVars, genVars>>

\* err: (void)munmap(op, page_size); return rc;
OpErr ==
    /\ par.pc = "err"
    /\ op_page' = "unmapped"
    /\ par' = [par EXCEPT !.pc = "returned"]
    /\ UNCHANGED <<kid, op>>
    /\ UNCHANGED <<calcVars, dispatchVars, methodVars, poolVars, filterVars, tlbVars, raceVars, genVars>>

\* SIGALRM, SIGINT, ... to the parent: the host's handler clears the
\* keep-stressing flag
OpStop ==
    /\ par.pc \notin {"start", "returned"}
    /\ par.keep_flag
    /\ par' = [par EXCEPT !.keep_flag = FALSE]
    /\ UNCHANGED <<kid, op_page, op>>
    /\ UNCHANGED <<calcVars, dispatchVars, methodVars, poolVars, filterVars, tlbVars, raceVars, genVars>>

\* the steps of the parent that need no signal from outside
Parent ==
    \/ OpMmap
    \/ OpDo
    \/ OpFork
    \/ OpWait
    \/ OpKill
    \/ OpRewait
    \/ OpCount
    \/ OpWhile
    \/ OpFinish
    \/ OpErr

\* ---- the child branch (pid == 0)

\* the statements of the child branch before the execute loop, in the
\* order of the source
child_order ==
    << "c_dumpable", "c_dropcaps", "c_sighandler", "c_mmap", "c_guard",
       "c_generate", "c_protect_exec", "c_setitimer", "c_close", "c_loop" >>

child_index(pc) == CHOOSE k \in 1 .. Len(child_order) : child_order[k] = pc

\* faulty variant: the generator runs before the guard pages are set
child_next_generate_first(pc) ==
    IF pc = "c_mmap" THEN "c_generate"
    ELSE IF pc = "c_generate" THEN "c_guard"
    ELSE IF pc = "c_guard" THEN "c_protect_exec"
    ELSE child_order[child_index(pc) + 1]

\* the statement that follows the one at pc
child_next(pc) == child_order[child_index(pc) + 1]

\* the end of the child process: its memory, handlers and timer are gone;
\* what is left is its status and the record of what it did
child_exit(k, status) ==
    [KidNone EXCEPT !.pc = "c_dead", !.status = status,
                    !.executed = k.executed, !.failed = k.failed]

\* _exit(status) after the call named by what has failed
child_abort(k, what, status) ==
    [KidNone EXCEPT !.pc = "c_dead", !.status = status,
                    !.executed = k.executed, !.failed = what]

Log(k, step) == Append(k.steps, step)

\* sched_settings_apply(true); stress_shared_unmap();
\* stress_process_dumpable(false);
KDumpable ==
    /\ kid.pc = "c_dumpable"
    /\ kid' = [kid EXCEPT !.pc = child_next(@), !.dumpable = FALSE,
                          !.steps = Log(kid, "DUMPABLE_OFF")]
    /\ UNCHANGED <<par, op_page, op>>
    /\ UNCHANGED <<calcVars, dispatchVars, methodVars, poolVars, filterVars, tlbVars, raceVars, genVars>>

\* if (stress_drop_capabilities(args->name) < 0) _exit(EXIT_NO_RESOURCE);
KDropCaps ==
    /\ kid.pc = "c_dropcaps"
    /\ \E ok \in BOOLEAN :
         kid' = IF ok
                THEN [kid EXCEPT !.pc = child_next(@), !.caps_dropped = TRUE,
                                 !.steps = Log(kid, "DROP_CAPS")]
                ELSE child_abort(kid, "stress_drop_capabilities", "exit_3")
    /\ UNCHANGED <<par, op_page, op>>
    /\ UNCHANGED <<calcVars, dispatchVars, methodVars, poolVars, filterVars, tlbVars, raceVars, genVars>>

\* for (i = 0; i < SIZEOF_ARRAY(sigs); i++)
\*     if (stress_sighandler(..., sigs[i], stress_badhandler, NULL) < 0)
\*         _exit(EXIT_FAILURE);
KSighandler ==
    /\ kid.pc = "c_sighandler"
    /\ IF kid.i < SIZEOF_sigs
       THEN \E ok \in BOOLEAN :
              kid' = IF ok
                     THEN [kid EXCEPT !.i = @ + 1, !.handlers = @ + 1]
                     ELSE child_abort(kid, "stress_sighandler", "exit_1")
       ELSE kid' = [kid EXCEPT !.pc = child_next(@),
                               !.steps = Log(kid, "HANDLERS")]
    /\ UNCHANGED <<par, op_page, op>>
    /\ UNCHANGED <<calcVars, dispatchVars, methodVars, poolVars, filterVars, tlbVars, raceVars, genVars>>

BufferBytes == par.page_size * PAGES

PageOf(offset) == offset \div par.page_size

\* ops_end = opcodes + page_size * (PAGES - 1)
ops_end == par.page_size * (PAGES - 1)

\* opcodes = mmap(NULL, page_size * PAGES, PROT_READ | PROT_WRITE, ...);
\* memset(opcodes, 0x00, page_size * PAGES);
\* ops_begin = opcodes + page_size;
KMmap ==
    /\ kid.pc = "c_mmap"
    /\ \E ok \in BOOLEAN :
         kid' = IF ok
                THEN [kid EXCEPT !.pc = child_next(@),
                                 !.prot = [p \in 0 .. (PAGES - 1) |-> {"R", "W"}],
                                 !.mem = [b \in 0 .. (BufferBytes - 1) |-> 0],
                                 !.ops_begin = par.page_size,
                                 !.steps = Log(kid, "ALLOCATE")]
                ELSE child_abort(kid, "mmap", "exit_3")
    /\ UNCHANGED <<par, op_page, op>>
    /\ UNCHANGED <<calcVars, dispatchVars, methodVars, poolVars, filterVars, tlbVars, raceVars, genVars>>

\* mprotect(addr, len, prot) on the buffer: the pages of [addr, addr + len)
mprotect(prot, addr, len, new) ==
    [p \in DOMAIN prot |->
        IF (p * par.page_size >= addr) /\ (p * par.page_size < addr + len)
        THEN new ELSE prot[p]]

\* mprotect(opcodes, page_size, PROT_NONE);
\* mprotect(ops_end, page_size, PROT_NONE);
\* mprotect(ops_begin, page_size, PROT_WRITE);
guard_prot(prot, begin) ==
    mprotect(mprotect(mprotect(prot, 0, par.page_size, {}),
                      ops_end, par.page_size, {}),
             begin, par.page_size, {"W"})

KGuard ==
    /\ kid.pc = "c_guard"
    /\ kid' = [kid EXCEPT !.pc = child_next(@),
                          !.prot = guard_prot(kid.prot, kid.ops_begin),
                          !.steps = Log(kid, "GUARD")]
    /\ UNCHANGED <<par, op_page, op>>
    /\ UNCHANGED <<calcVars, dispatchVars, methodVars, poolVars, filterVars, tlbVars, raceVars, genVars>>

\* bytes [from, to) of mem set by f (a function of the offset from "from")
Fill(bytes, from, to, f(_)) ==
    [b \in DOMAIN bytes |-> IF (b >= from) /\ (b < to) THEN f(b - from) ELSE bytes[b]]

\* byte n (0 the lowest) of the little-endian value v
ByteOf(v, n) == (v \div (256 ^ n)) % 256

\* stress_opcode_inc(): case 8 stores page_size bytes of *op & 0xff,
\* case 16 stores page_size >> 1 words of *op & 0xffff
stress_opcode_inc_bytes(size) ==
    IF size = 8 THEN par.page_size ELSE 2 * (par.page_size \div 2)

stress_opcode_inc(bytes, begin, size, opv) ==
    LET tmp == opv % (2 ^ size)
        inc_byte(d) == ByteOf(tmp, d % (size \div 8))
    IN  Fill(bytes, begin, begin + stress_opcode_inc_bytes(size), inc_byte)

\* stress_opcode_random(), stress_opcode_mixed(), stress_opcode_text():
\* every word of [ops_begin, ops_end) is stored; the values come from the
\* random number generator and are left open (RndByte)
RndByte == 256          \* a byte whose value stress_mwc32() decides

stress_opcode_other(bytes, begin) ==
    LET rnd_byte(d) == RndByte
    IN  Fill(bytes, begin, ops_end, rnd_byte)

\* the bytes [from, to) the selected generator writes
generate_to(begin) ==
    IF opcode_method_name = <<"i", "n", "c">>
    THEN begin + stress_opcode_inc_bytes(par.size)
    ELSE ops_end

\* opcode_method->func(page_size, ops_begin, ops_end, op);  a store to a
\* page that is not writable raises SIGSEGV, which stress_badhandler ends
\* with _exit(1)
KGenerate ==
    /\ kid.pc = "c_generate"
    /\ IF \A b \in kid.ops_begin .. (generate_to(kid.ops_begin) - 1) :
             (b < BufferBytes) /\ ("W" \in kid.prot[PageOf(b)])
       THEN kid' = [kid EXCEPT
                      !.pc = child_next(@),
                      !.mem = IF opcode_method_name = <<"i", "n", "c">>
                              THEN stress_opcode_inc(@, kid.ops_begin, par.size, op)
                              ELSE stress_opcode_other(@, kid.ops_begin),
                      !.steps = Log(kid, "GENERATE")]
       ELSE kid' = child_exit(kid, "exit_1")
    /\ UNCHANGED <<par, op_page, op>>
    /\ UNCHANGED <<calcVars, dispatchVars, methodVars, poolVars, filterVars, tlbVars, raceVars, genVars>>

\* mprotect(ops_begin, page_size, PROT_READ | PROT_EXEC);
exec_prot(prot, begin) == mprotect(prot, begin, par.page_size, {"R", "X"})

\* ... shim_flush_icache(ops_begin, ops_end); stress_parent_died_alarm();
KProtectExec ==
    /\ kid.pc = "c_protect_exec"
    /\ kid' = [kid EXCEPT !.pc = child_next(@),
                          !.prot = exec_prot(kid.prot, kid.ops_begin),
                          !.steps = Log(kid, "PROTECT_EXEC")]
    /\ UNCHANGED <<par, op_page, op>>
    /\ UNCHANGED <<calcVars, dispatchVars, methodVars, poolVars, filterVars, tlbVars, raceVars, genVars>>

\* if (setitimer(ITIMER_REAL, &it, NULL) < 0) _exit(EXIT_NO_RESOURCE);
KSetitimer ==
    /\ kid.pc = "c_setitimer"
    /\ \E ok \in BOOLEAN :
         kid' = IF ok
                THEN [kid EXCEPT !.pc = child_next(@), !.timer_armed = TRUE,
                                 !.steps = Log(kid, "TIMER")]
                ELSE child_abort(kid, "setitimer", "exit_3")
    /\ UNCHANGED <<par, op_page, op>>
    /\ UNCHANGED <<calcVars, dispatchVars, methodVars, poolVars, filterVars, tlbVars, raceVars, genVars>>

\* stress_set_stack_smash_check_flag(false); fflush(NULL); close(...) x 3;
\* for (i = 0; ...
KClose ==
    /\ kid.pc = "c_close"
    /\ kid' = [kid EXCEPT !.pc = child_next(@), !.i = 0]
    /\ UNCHANGED <<par, op_page, op>>
    /\ UNCHANGED <<calcVars, dispatchVars, methodVars, poolVars, filterVars, tlbVars, raceVars, genVars>>

\* for (...; i < opcode_loops; ...)  and, after the loop, _exit(0);
KLoop ==
    /\ kid.pc = "c_loop"
    /\ kid' = IF kid.i < opcode_loops
              THEN [kid EXCEPT !.pc = "c_seccomp"]
              ELSE child_exit(kid, "exit_0")
    /\ UNCHANGED <<par, op_page, op>>
    /\ UNCHANGED <<calcVars, dispatchVars, methodVars, poolVars, filterVars, tlbVars, raceVars, genVars>>

\* a system call made once a filter is installed goes through it
syscall_passes(k, nr) ==
    (~k.filter_installed) \/ (seccomp_run_filter(nr) = SECCOMP_RET_ALLOW)

\* (void)shim_seccomp(SECCOMP_SET_MODE_FILTER, 0, &prog): the child after
\* a failure of the call, whose result is thrown away
seccomp_failure(k) ==
    [k EXCEPT !.pc = "c_inc", !.failed = "seccomp",
              !.steps = Log(k, "FILTER")]

\* (void)shim_seccomp(SECCOMP_SET_MODE_FILTER, 0, &prog);  under a filter
\* installed by an earlier round the call traps: SIGSYS, stress_badhandler,
\* _exit(1)
KSeccomp ==
    /\ kid.pc = "c_seccomp"
    /\ IF syscall_passes(kid, NR_seccomp)
       THEN \E ok \in BOOLEAN :
              kid' = IF ok
                     THEN [kid EXCEPT !.pc = "c_inc", !.filter_installed = TRUE,
                                      !.steps = Log(kid, "FILTER")]
                     ELSE seccomp_failure(kid)
       ELSE kid' = child_exit(kid, "exit_1")
    /\ UNCHANGED <<par, op_page, op>>
    /\ UNCHANGED <<calcVars, dispatchVars, methodVars, poolVars, filterVars, tlbVars, raceVars, genVars>>

\* *op = (*op + 1) & STRESS_OPCODE_MASK;
KInc ==
    /\ kid.pc = "c_inc"
    /\ op' = (op + 1) % OpcodeModulus
    /\ kid' = [kid EXCEPT !.pc = "c_call"]
    /\ UNCHANGED <<par, op_page>>
    /\ UNCHANGED <<calcVars, dispatchVars, methodVars, poolVars, filterVars, tlbVars, raceVars, genVars>>

\* ((void (*)(void))(ops_begin))();  the fetch from a page that is not
\* executable raises SIGSEGV
KCall ==
    /\ kid.pc = "c_call"
    /\ kid' = IF "X" \in kid.prot[PageOf(kid.ops_begin)]
              THEN [kid EXCEPT !.pc = "c_gen", !.executed = @ + 1,
                               !.steps = Log(kid, "EXECUTE")]
              ELSE child_exit(kid, "exit_1")
    /\ UNCHANGED <<par, op_page, op>>
    /\ UNCHANGED <<calcVars, dispatchVars, methodVars, poolVars, filterVars, tlbVars, raceVars, genVars>>

\* ---- what the generated code can do
FaultSignals == {"SIGILL", "SIGTRAP", "SIGFPE", "SIGBUS", "SIGSEGV"}

HandledSignals(k) == {sigs[n] : n \in 1 .. k.handlers}

\* a signal for the child: stress_badhandler ends it with _exit(1), the
\* default action of a signal without handler kills it
deliver(k, sig) ==
    IF sig \in HandledSignals(k) THEN child_exit(k, "exit_1") ELSE child_exit(k, sig)

\* the generated code faults
KGenFault ==
    /\ kid.pc = "c_gen"
    /\ \E sig \in FaultSignals : kid' = deliver(kid, sig)
    /\ UNCHANGED <<par, op_page, op>>
    /\ UNCHANGED <<calcVars, dispatchVars, methodVars, poolVars, filterVars, tlbVars, raceVars, genVars>>

GenSyscalls == {NR_write, NR_exit_group, NR_rt_sigprocmask}

\* the generated code makes a system call: the filter traps it (SIGSYS) or
\* lets it through; exit_group ends the child, rt_sigprocmask stands for the
\* calls that block or disarm the signals of the watchdog, write changes
\* nothing here
KGenSyscall ==
    /\ kid.pc = "c_gen"
    /\ \E nr \in GenSyscalls :
         kid' = IF ~syscall_passes(kid, nr) THEN deliver(kid, "SIGSYS")
                ELSE IF nr = NR_exit_group THEN child_exit(kid, "exit_any")
                ELSE IF nr = NR_rt_sigprocmask THEN [kid EXCEPT !.tampered = TRUE]
                ELSE kid
    /\ UNCHANGED <<par, op_page, op>>
    /\ UNCHANGED <<calcVars, dispatchVars, methodVars, poolVars, filterVars, tlbVars, raceVars, genVars>>

\* the generated code returns to its caller:  ops_begin += opcode_bytes; i++
KGenReturn ==
    /\ kid.pc = "c_gen"
    /\ kid' = [kid EXCEPT !.pc = "c_loop", !.i = @ + 1,
                          !.ops_begin = @ + opcode_bytes]
    /\ UNCHANGED <<par, op_page, op>>
    /\ UNCHANGED <<calcVars, dispatchVars, methodVars, poolVars, filterVars, tlbVars, raceVars, genVars>>

\* the generated code loops for ever
KGenSpin ==
    /\ kid.pc = "c_gen"
    /\ kid' = [kid EXCEPT !.pc = "c_spin"]
    /\ UNCHANGED <<par, op_page, op>>
    /\ UNCHANGED <<calcVars, dispatchVars, methodVars, poolVars, filterVars, tlbVars, raceVars, genVars>>

\* the interval timer expires: SIGALRM, unless the generated code has
\* blocked it
KTimer ==
    /\ ChildAlive
    /\ kid.timer_armed
    /\ ~kid.tampered
    /\ kid' = deliver(kid, "SIGALRM")
    /\ UNCHANGED <<par, op_page, op>>
    /\ UNCHANGED <<calcVars, dispatchVars, methodVars, poolVars, filterVars, tlbVars, raceVars, genVars>>

Child ==
    \/ KDumpable
    \/ KDropCaps
    \/ KSighandler
    \/ KMmap
    \/ KGuard
    \/ KGenerate
    \/ KProtectExec
    \/ KSetitimer
    \/ KClose
    \/ KLoop
    \/ KSeccomp
    \/ KInc
    \/ KCall
    \/ KGenFault
    \/ KGenSyscall
    \/ KGenReturn
    \/ KGenSpin

NextOpcode ==
    \/ Parent
    \/ OpWaitFail
    \/ OpStop
    \/ Child
    \/ KTimer

(***************************************************************************)
(* SpecTlb: stress_memthrash_find_primes() fills the table of strides,     *)
(* then stress_memthrash_tlb() is called with the region sizes that        *)
(* stress_memthrash_func() passes to a method, finds its stride and walks  *)
(* the region, one step of the read loop or of the write loop at a time.   *)
(***************************************************************************)
STRESS_CACHE_LINE_SHIFT == 6
STRESS_CACHE_LINE_SIZE == 2 ^ STRESS_CACHE_LINE_SHIFT
MEM_SIZE_PRIMES == 1 + MATRIX_SIZE_MAX_SHIFT - MATRIX_SIZE_MIN_SHIFT

\* trial division: n has no divisor d with 1 < d and d * d <= n
stress_is_prime64(n) ==
    /\ n >= 2
    /\ \A d \in 2 .. MaxTrialDivisor : (d * d <= n) => (n % d # 0)

\* nextPrime(n): the least prime that is not below n
RECURSIVE stress_get_prime64(_)
stress_get_prime64(n) ==
    IF stress_is_prime64(n) THEN n ELSE stress_get_prime64(n + 1)

\* faulty variant: every entry is computed for the smallest region
find_primes_mem_size_first(i) == 2 ^ (2 * MATRIX_SIZE_MIN_SHIFT)

\* const size_t mem_size = 1 << (2 * (i + MATRIX_SIZE_MIN_SHIFT));
find_primes_mem_size(i) == 2 ^ (2 * (i + MATRIX_SIZE_MIN_SHIFT))

\* the entry the loop body stores in stress_memthrash_primes[i]:
\* const size_t cache_lines = (mem_size / STRESS_CACHE_LINE_SIZE) + 137;
\* .mem_size = mem_size;
\* .prime_stride = stress_get_prime64(cache_lines) * STRESS_CACHE_LINE_SIZE;
find_primes_entry(i) ==
    LET mem_size == find_primes_mem_size(i)
        cache_lines == (mem_size \div STRESS_CACHE_LINE_SIZE) + 137
    IN [ mem_size |-> mem_size,
         prime_stride |-> stress_get_prime64(cache_lines) * STRESS_CACHE_LINE_SIZE ]

\* the static table is zero before stress_memthrash_find_primes has run
InitTlbIdle ==
    /\ stress_memthrash_primes =
          [ i \in 0 .. (MEM_SIZE_PRIMES - 1) |-> [mem_size |-> 0, prime_stride |-> 0] ]
    /\ fp_i = 0
    /\ tpc = "idle"
    /\ t_mem_size = 0
    /\ t_offset = 0
    /\ t_found = FALSE
    /\ t_stride = 0
    /\ t_j = 0
    /\ t_k = 0

\* one round of the loop of stress_memthrash_find_primes
FindPrimes ==
    /\ fp_i < MEM_SIZE_PRIMES
    /\ stress_memthrash_primes' =
          [stress_memthrash_primes EXCEPT ![fp_i] = find_primes_entry(fp_i)]
    /\ fp_i' = fp_i + 1
    /\ UNCHANGED <<tpc, t_mem_size, t_offset, t_found, t_stride, t_j, t_k>>
    /\ UNCHANGED <<calcVars, dispatchVars, methodVars, poolVars, filterVars, opcodeVars, raceVars, genVars>>

\* the region sizes stress_memthrash_func passes: 1 << (2 * j)
FuncMemSizes == { 2 ^ (2 * j) : j \in MATRIX_SIZE_MIN_SHIFT .. MATRIX_SIZE_MAX_SHIFT }

\* the value of stress_mwc16() & (STRESS_CACHE_LINE_SIZE - 1) that is tried
TlbOffsets == {STRESS_CACHE_LINE_SIZE - 1}

\* 65537 * STRESS_CACHE_LINE_SIZE, the "prime default"
tlb_default_stride == 65537 * STRESS_CACHE_LINE_SIZE

\* faulty variant: the loop stops one entry early
tlb_lookup_range_short == 0 .. (MEM_SIZE_PRIMES - 2)

\* the indices the lookup loop visits: for (i = 0; i < MEM_SIZE_PRIMES; i++)
tlb_lookup_range == 0 .. (MEM_SIZE_PRIMES - 1)

\* the lookup loop of stress_memthrash_tlb: the first entry whose mem_size
\* is the argument, if there is one
tlb_matches(table, mem_size) ==
    { i \in tlb_lookup_range : table[i].mem_size = mem_size }

tlb_lookup(table, mem_size) ==
    LET hits == tlb_matches(table, mem_size) IN
    IF hits = {} THEN tlb_default_stride
    ELSE table[CHOOSE i \in hits : \A h \in hits : i <= h].prime_stride

\* entry of stress_memthrash_tlb: locals and the lookup of the stride; the
\* table has been filled before any worker runs; the two loops are walked
\* step by step for the regions up to 4^MaxWalkShift bytes only
TlbCall ==
    /\ fp_i = MEM_SIZE_PRIMES
    /\ tpc = "idle"
    /\ \E mem_size \in FuncMemSizes, offset \in TlbOffsets :
         /\ t_mem_size' = mem_size
         /\ t_offset' = offset
         /\ t_found' = (tlb_matches(stress_memthrash_primes, mem_size) # {})
         /\ t_stride' = tlb_lookup(stress_memthrash_primes, mem_size)
         /\ t_j' = 0
         /\ t_k' = offset
         /\ tpc' = IF mem_size <= 4 ^ MaxWalkShift THEN "read" ELSE "idle"
    /\ UNCHANGED <<stress_memthrash_primes, fp_i>>
    /\ UNCHANGED <<calcVars, dispatchVars, methodVars, poolVars, filterVars, opcodeVars, raceVars, genVars>>

tlb_cache_lines(mem_size) == mem_size \div (2 ^ STRESS_CACHE_LINE_SHIFT)

\* k = (k + prime_stride) & mask;  with mask = mem_size - 1 and mem_size a
\* power of two, x & mask is x modulo mem_size
tlb_next_k(k, prime_stride, mem_size) == (k + prime_stride) % mem_size

\* the loop of reads: for (j = 0, k = offset; j < cache_lines; j++)
\*     { (void)*(mem + k); k = (k + prime_stride) & mask; }
TlbRead ==
    /\ tpc = "read"
    /\ IF t_j < tlb_cache_lines(t_mem_size)
       THEN /\ t_k' = tlb_next_k(t_k, t_stride, t_mem_size)
            /\ t_j' = t_j + 1
            /\ tpc' = "read"
       ELSE /\ t_k' = t_offset
            /\ t_j' = 0
            /\ tpc' = "write"
    /\ UNCHANGED <<stress_memthrash_primes, fp_i, t_mem_size, t_offset, t_found, t_stride>>
    /\ UNCHANGED <<calcVars, dispatchVars, methodVars, poolVars, filterVars, opcodeVars, raceVars, genVars>>

\* the loop of writes: for (j = 0, k = offset; j < cache_lines; j++)
\*     { *(mem + k) = j; k = (k + prime_stride) & mask; }   and the return
TlbWrite ==
    /\ tpc = "write"
    /\ IF t_j < tlb_cache_lines(t_mem_size)
       THEN /\ t_k' = tlb_next_k(t_k, t_stride, t_mem_size)
            /\ t_j' = t_j + 1
            /\ tpc' = "write"
       ELSE /\ t_k' = 0
            /\ t_j' = 0
            /\ tpc' = "idle"
    /\ UNCHANGED <<stress_memthrash_primes, fp_i, t_mem_size, t_offset, t_found, t_stride>>
    /\ UNCHANGED <<calcVars, dispatchVars, methodVars, poolVars, filterVars, opcodeVars, raceVars, genVars>>

NextTlb == FindPrimes \/ TlbCall \/ TlbRead \/ TlbWrite

(***************************************************************************)
(* SpecAllRace: the worker threads of one pool, all started with the       *)
(* method "all", inside stress_memthrash_all().  static size_t i (all_i)   *)
(* is one object shared by the threads of the process; it is read and      *)
(* written without a lock or an atomic, so the loads and stores of         *)
(* different threads interleave.                                           *)
(***************************************************************************)
AllThreads == 0 .. (MaxThreads - 1)

InitRaceIdle ==
    /\ apc = [t \in AllThreads |-> "a_idle"]
    /\ a_reg = [t \in AllThreads |-> NoValue]
    /\ a_idx = [t \in AllThreads |-> NoValue]

\* stress_memthrash_func: func(args, mem_size) with func = stress_memthrash_all
RaceCall(t) ==
    /\ apc[t] = "a_idle"
    /\ apc' = [apc EXCEPT ![t] = "a_do"]
    /\ UNCHANGED <<a_reg, a_idx>>
    /\ UNCHANGED dispatchVars
    /\ UNCHANGED <<calcVars, methodVars, poolVars, filterVars, opcodeVars, tlbVars, genVars>>

\* do { memthrash_methods[i].func(args, mem_size);   i is loaded and the
\* table is indexed with it
RaceDo(t) ==
    /\ apc[t] = "a_do"
    /\ a_idx' = [a_idx EXCEPT ![t] = all_i]
    /\ apc' = [apc EXCEPT ![t] = "a_in_method"]
    /\ UNCHANGED a_reg
    /\ UNCHANGED dispatchVars
    /\ UNCHANGED <<calcVars, methodVars, poolVars, filterVars, opcodeVars, tlbVars, genVars>>

\* the method returns; } while (!thread_terminate && (stress_time_now() - t < 0.01));
RaceWhile(t) ==
    /\ apc[t] = "a_in_method"
    /\ a_idx' = [a_idx EXCEPT ![t] = NoValue]
    /\ \E in_slice \in BOOLEAN :
         apc' = [apc EXCEPT ![t] = IF all_continue(thread_terminate, in_slice)
                                   THEN "a_do" ELSE "a_inc_load"]
    /\ UNCHANGED a_reg
    /\ UNCHANGED dispatchVars
    /\ UNCHANGED <<calcVars, methodVars, poolVars, filterVars, opcodeVars, tlbVars, genVars>>

\* i++: the load
RaceIncLoad(t) ==
    /\ apc[t] = "a_inc_load"
    /\ a_reg' = [a_reg EXCEPT ![t] = all_i]
    /\ apc' = [apc EXCEPT ![t] = "a_inc_store"]
    /\ UNCHANGED a_idx
    /\ UNCHANGED dispatchVars
    /\ UNCHANGED <<calcVars, methodVars, poolVars, filterVars, opcodeVars, tlbVars, genVars>>

\* i++: the store
RaceIncStore(t) ==
    /\ apc[t] = "a_inc_store"
    /\ a_reg[t] < MaxRaceIndex
    /\ all_i' = a_reg[t] + 1
    /\ a_reg' = [a_reg EXCEPT ![t] = NoValue]
    /\ apc' = [apc EXCEPT ![t] = "a_wrap_load"]
    /\ UNCHANGED a_idx
    /\ UNCHANGED <<dpc, all_runs, visited, rnd_i, rnd_draws, rnd_run, via>>
    /\ UNCHANGED <<calcVars, methodVars, poolVars, filterVars, opcodeVars, tlbVars, genVars>>

\* if (i >= SIZEOF_ARRAY(memthrash_methods)): the load and the test
RaceWrapLoad(t) ==
    /\ apc[t] = "a_wrap_load"
    /\ IF all_i >= SIZEOF_memthrash_methods
       THEN /\ apc' = [apc EXCEPT ![t] = "a_wrap_store"]
            /\ a_reg' = [a_reg EXCEPT ![t] = all_i]
       ELSE /\ apc' = [apc EXCEPT ![t] = "a_idle"]
            /\ UNCHANGED a_reg
    /\ UNCHANGED a_idx
    /\ UNCHANGED dispatchVars
    /\ UNCHANGED <<calcVars, methodVars, poolVars, filterVars, opcodeVars, tlbVars, genVars>>

\* i = 1; and the return
RaceWrapStore(t) ==
    /\ apc[t] = "a_wrap_store"
    /\ all_i' = 1
    /\ a_reg' = [a_reg EXCEPT ![t] = NoValue]
    /\ apc' = [apc EXCEPT ![t] = "a_idle"]
    /\ UNCHANGED a_idx
    /\ UNCHANGED <<dpc, all_runs, visited, rnd_i, rnd_draws, rnd_run, via>>
    /\ UNCHANGED <<calcVars, methodVars, poolVars, filterVars, opcodeVars, tlbVars, genVars>>

NextAllRace ==
    \E t \in AllThreads :
       \/ RaceCall(t)
       \/ RaceDo(t)
       \/ RaceWhile(t)
       \/ RaceIncLoad(t)
       \/ RaceIncStore(t)
       \/ RaceWrapLoad(t)
       \/ RaceWrapStore(t)

(***************************************************************************)
(* SpecGen: one call opcode_method->func(page_size, ops_begin, ops_end,    *)
(* op) of a generator, one round of its loop at a time.  Addresses are     *)
(* byte offsets into the PAGES pages of opcodes; of the bytes stored only  *)
(* the extent is kept, and the last block of eight words of "mixed".  A    *)
(* uint64_t is the set of the positions of its one bits, bit 0 the least   *)
(* significant.                                                            *)
(***************************************************************************)
Bits64 == 0 .. 63

\* x >> n and x << n on uint64_t
shr64(x, n) == { b - n : b \in { c \in x : c >= n } }
shl64(x, n) == { b + n : b \in { c \in x : c + n <= 63 } }
xor64(x, y) == (x \ y) \cup (y \ x)

\* 0xf0f0f0f0f0f0f0f0, 0xcccccccccccccccc, 0xaaaaaaaaaaaaaaaa and the
\* complements 0x0f0f..., 0x3333..., 0x5555...
mask_hi(width) == { b \in Bits64 : b % (2 * width) >= width }
mask_lo(width) == { b \in Bits64 : b % (2 * width) < width }

\* one line of reverse64: x = ((x & hi) >> width) | ((x & lo) << width)
swap64(x, width) ==
    shr64(x \cap mask_hi(width), width) \cup shl64(x \cap mask_lo(width), width)

\* reverse64(): the width 4, the width 2 and the width 1 swaps
reverse64(x) == swap64(swap64(swap64(x, 4), 2), 1)

\* 0xffffffff, an unsigned int constant, as uint64_t
Word_ffffffff == 0 .. 31

\* the four words "mixed" stores for a word w: w, w ^ 0xffffffff,
\* (w >> 1) ^ w, reverse64(w)
mixed_words(w) ==
    << w, xor64(w, Word_ffffffff), xor64(shr64(w, 1), w), reverse64(w) >>

\* ops_begin and ops_end of stress_opcode for a page size
gen_ops_begin(page_size) == page_size
gen_ops_end(page_size) == page_size * (PAGES - 1)

\* the page sizes, multiples of 64, that are tried
GenPageSizes == { 64 * n : n \in 1 .. MaxGenPageUnits }

\* the values of STRESS_OPCODE_SIZE a build can have
GenOpcodeSizes == {8, 16, 32, 48, 64}

\* the values of *op and of stress_mwc64() that are tried
GenWords == { {}, {0}, {63}, {0, 1, 33}, Bits64, {4, 9, 17, 40, 62} }

InitGenIdle ==
    /\ g_pc = "idle"
    /\ g_func = "NULL"
    /\ g_opsize = 64
    /\ g_page_size = 0
    /\ g_ops = 0
    /\ g_i = 0
    /\ g_lo = NoValue
    /\ g_hi = NoValue
    /\ g_tmp = {}
    /\ g_block = << >>
    /\ g_text_size = 0
    /\ g_rd_lo = NoValue
    /\ g_rd_hi = NoValue

GenOther == <<calcVars, dispatchVars, methodVars, poolVars, filterVars, opcodeVars,
              tlbVars, raceVars>>

\* a store of len bytes at ops: the extent stored to so far grows
store_lo(ops) == IF g_lo = NoValue \/ ops < g_lo THEN ops ELSE g_lo
store_hi(ops, len) == IF g_hi = NoValue \/ ops + len > g_hi THEN ops + len ELSE g_hi

\* the number of rounds of the first loop of stress_opcode_inc and the
\* bytes a round stores: i = page_size, page_size >> 1, page_size >> 2,
\* page_size / 6, page_size >> 3
inc_rounds(size, page_size) ==
    IF size = 48 THEN page_size \div 6 ELSE page_size \div (size \div 8)

inc_bytes(size) == size \div 8

\* opcode_method->func(page_size, ops_begin, ops_end, op) for random, inc
\* and mixed: the locals before the loop
GenCall ==
    /\ g_pc = "idle"
    /\ g_func = "NULL"
    /\ \E s \in 1 .. (Len(stress_opcode_methods) - 1), page_size \in GenPageSizes,
          size \in GenOpcodeSizes, w \in GenWords :
         /\ stress_opcode_methods[s].func # "stress_opcode_text"
         /\ (stress_opcode_methods[s].func # "stress_opcode_inc") => (size = 64)
         /\ (stress_opcode_methods[s].func = "stress_opcode_random") => (w = {})
         /\ g_func' = stress_opcode_methods[s].func
         /\ g_pc' = stress_opcode_methods[s].func
         /\ g_opsize' = size
         /\ g_page_size' = page_size
         /\ g_ops' = gen_ops_begin(page_size)
         /\ g_i' = IF stress_opcode_methods[s].func = "stress_opcode_inc"
                   THEN inc_rounds(size, page_size) ELSE 0
         /\ g_tmp' = w
    /\ UNCHANGED <<g_lo, g_hi, g_block, g_text_size, g_rd_lo, g_rd_hi>>
    /\ UNCHANGED GenOther

\* faulty variant: the loop runs while ops <= ops_end
random_goes_on_inclusive(ops, end) == ops <= end

\* while (ops < (uint32_t *)ops_end)
random_goes_on(ops, end) == ops < end

\* stress_opcode_random: while (ops < ops_end) *(ops++) = stress_mwc32();
GenRandom ==
    /\ g_pc = "stress_opcode_random"
    /\ IF random_goes_on(g_ops, gen_ops_end(g_page_size))
       THEN /\ g_lo' = store_lo(g_ops)
            /\ g_hi' = store_hi(g_ops, 4)
            /\ g_ops' = g_ops + 4
            /\ UNCHANGED g_pc
       ELSE /\ g_pc' = "done"
            /\ UNCHANGED <<g_lo, g_hi, g_ops>>
    /\ UNCHANGED <<g_func, g_opsize, g_page_size, g_i, g_tmp, g_block, g_text_size,
                   g_rd_lo, g_rd_hi>>
    /\ UNCHANGED GenOther

\* stress_opcode_inc: while (i--) *(ops++) = tmp;  a round of case 48
\* stores six bytes
GenInc ==
    /\ g_pc = "stress_opcode_inc"
    /\ IF g_i # 0
       THEN /\ g_lo' = store_lo(g_ops)
            /\ g_hi' = store_hi(g_ops, inc_bytes(g_opsize))
            /\ g_ops' = g_ops + inc_bytes(g_opsize)
            /\ g_i' = g_i - 1
            /\ UNCHANGED g_pc
       ELSE /\ g_pc' = IF g_opsize = 48 THEN "inc_slop" ELSE "done"
            /\ UNCHANGED <<g_lo, g_hi, g_ops, g_i>>
    /\ UNCHANGED <<g_func, g_opsize, g_page_size, g_tmp, g_block, g_text_size,
                   g_rd_lo, g_rd_hi>>
    /\ UNCHANGED GenOther

\* case 48: while (ops < (uint8_t *)ops_end) *ops++ = 0x00;
GenIncSlop ==
    /\ g_pc = "inc_slop"
    /\ IF g_ops < gen_ops_end(g_page_size)
       THEN /\ g_lo' = store_lo(g_ops)
            /\ g_hi' = store_hi(g_ops, 1)
            /\ g_ops' = g_ops + 1
            /\ UNCHANGED g_pc
       ELSE /\ g_pc' = "done"
            /\ UNCHANGED <<g_lo, g_hi, g_ops>>
    /\ UNCHANGED <<g_func, g_opsize, g_page_size, g_i, g_tmp, g_block, g_text_size,
                   g_rd_lo, g_rd_hi>>
    /\ UNCHANGED GenOther

\* stress_opcode_mixed: while (ops < ops_end) { rnd = stress_mwc64();
\* four stores for tmp, four stores for rnd }
GenMixed ==
    /\ g_pc = "stress_opcode_mixed"
    /\ IF g_ops < gen_ops_end(g_page_size)
       THEN /\ \E rnd \in GenWords :
                 g_block' = mixed_words(g_tmp) \o mixed_words(rnd)
            /\ g_lo' = store_lo(g_ops)
            /\ g_hi' = store_hi(g_ops, 8 * 8)
            /\ g_ops' = g_ops + 8 * 8
            /\ UNCHANGED g_pc
       ELSE /\ g_pc' = "done"
            /\ UNCHANGED <<g_lo, g_hi, g_ops, g_block>>
    /\ UNCHANGED <<g_func, g_opsize, g_page_size, g_i, g_tmp, g_text_size,
                   g_rd_lo, g_rd_hi>>
    /\ UNCHANGED GenOther

\* stress_text_addr(&text_start, &text_end): the sizes of the text that
\* are tried for a generator that needs ops_len bytes
GenTextSizes(ops_len) == {8, ops_len, ops_len + 8, ops_len + 8 + MaxTextSlack}

\* stress_mwc64modn(n): a value below n, 0 for n = 0
stress_mwc64modn(n) == IF n = 0 THEN {0} ELSE 0 .. (n - 1)

\* x & ~(0x7ULL)
and_not7(x) == (x \div 8) * 8

\* stress_opcode_text up to the end of the memcpy:
\*   ops_len = ops_end - ops_begin;  text_len = stress_text_addr(...) - 8;
\*   if (text_len < ops_len) { stress_opcode_random(...); return; }
\*   offset = stress_mwc64modn(text_len - ops_len) & ~(0x7ULL);
\*   (void)memcpy(ops_begin, text_start + offset, ops_len);
GenCallText ==
    /\ g_pc = "idle"
    /\ g_func = "NULL"
    /\ \E page_size \in GenPageSizes :
         LET ops_len == gen_ops_end(page_size) - gen_ops_begin(page_size) IN
         \E text_size \in GenTextSizes(ops_len) :
           LET text_len == text_size - 8 IN
           /\ g_func' = "stress_opcode_text"
           /\ g_page_size' = page_size
           /\ g_text_size' = text_size
           /\ g_ops' = gen_ops_begin(page_size)
           /\ IF text_len < ops_len
              THEN /\ g_pc' = "stress_opcode_random"
                   /\ UNCHANGED <<g_lo, g_hi, g_rd_lo, g_rd_hi>>
              ELSE \E r \in stress_mwc64modn(text_len - ops_len) :
                     /\ g_rd_lo' = and_not7(r)
                     /\ g_rd_hi' = and_not7(r) + ops_len
                     /\ g_lo' = gen_ops_begin(page_size)
                     /\ g_hi' = gen_ops_begin(page_size) + ops_len
                     /\ g_pc' = "text_flip"
    /\ UNCHANGED <<g_opsize, g_i, g_tmp, g_block>>
    /\ UNCHANGED GenOther

\* for (ops = ops_begin; ops < ops_end; ops++)
\*     { rnd = stress_mwc8(); if (rnd < 32) *ops ^= 1 << (rnd & 7); }
GenTextFlip ==
    /\ g_pc = "text_flip"
    /\ IF g_ops < gen_ops_end(g_page_size)
       THEN /\ \E rnd \in {0, 32} :
                 IF rnd < 32
                 THEN g_lo' = store_lo(g_ops) /\ g_hi' = store_hi(g_ops, 1)
                 ELSE UNCHANGED <<g_lo, g_hi>>
            /\ g_ops' = g_ops + 1
            /\ UNCHANGED g_pc
       ELSE /\ g_pc' = "done"
            /\ UNCHANGED <<g_lo, g_hi, g_ops>>
    /\ UNCHANGED <<g_func, g_opsize, g_page_size, g_i, g_tmp, g_block, g_text_size,
                   g_rd_lo, g_rd_hi>>
    /\ UNCHANGED GenOther

\* the generator returns; the next call starts afresh
GenReturn ==
    /\ g_pc = "done"
    /\ g_pc' = "idle"
    /\ g_func' = "NULL"
    /\ g_opsize' = 64
    /\ g_page_size' = 0
    /\ g_ops' = 0
    /\ g_i' = 0
    /\ g_lo' = NoValue
    /\ g_hi' = NoValue
    /\ g_tmp' = {}
    /\ g_block' = << >>
    /\ g_text_size' = 0
    /\ g_rd_lo' = NoValue
    /\ g_rd_hi' = NoValue
    /\ UNCHANGED GenOther

NextGen ==
    \/ GenCall
    \/ GenCallText
    \/ GenRandom
    \/ GenInc
    \/ GenIncSlop
    \/ GenMixed
    \/ GenTextFlip
    \/ GenReturn

(***************************************************************************)
(* The specifications                                                      *)
(***************************************************************************)
InitSpecCalc ==
    InitCalc /\ InitDispatchIdle /\ InitMethodIdle /\ InitPoolIdle /\ InitFilterIdle
    /\ InitOpcodeIdle
    /\ InitTlbIdle
    /\ InitRaceIdle
    /\ InitGenIdle

SpecCalc == InitSpecCalc /\ [][NextCalc]_vars

InitSpecDispatch ==
    InitCalcIdle /\ InitDispatchIdle /\ InitMethodIdle /\ InitPoolIdle /\ InitFilterIdle
    /\ InitOpcodeIdle
    /\ InitTlbIdle
    /\ InitRaceIdle
    /\ InitGenIdle

SpecDispatch == InitSpecDispatch /\ [][NextDispatch]_vars

InitSpecMethod ==
    InitCalcIdle /\ InitDispatchIdle /\ InitMethodIdle /\ InitPoolIdle /\ InitFilterIdle
    /\ InitOpcodeIdle
    /\ InitTlbIdle
    /\ InitRaceIdle
    /\ InitGenIdle

SpecMethod == InitSpecMethod /\ [][NextMethod]_vars

\* C7: after a failed mmap every later try is made without MAP_POPULATE;
\* every retry follows a 100 ms sleep; the function gives up on the arena
\* only when a stop has been requested; and whenever it returns without a
\* mapped arena it returns EXIT_NO_RESOURCE.
C7_ArenaRetryThenNoResource ==
    /\ \A k \in 1 .. Len(mmap_log) :
          (\E m \in 1 .. (k - 1) : ~mmap_log[m].ok) => ~mmap_log[k].populate
    /\ Len(mmap_log) <= slept + 1
    /\ (cpc = "returned" /\ mem = "MAP_FAILED") => ~keep_flag
    /\ (cpc = "returned" /\ mem \in {"none", "MAP_FAILED"}) => (rc = EXIT_NO_RESOURCE)

\* C8: creation goes on to the next slot after an EAGAIN failure and stops
\* at any other failure; in every teardown pthread_join is called once on
\* each slot whose worker was created and on no other slot.
C8_JoinExactlyTheCreated ==
    /\ \A s \in Slots :
          /\ join_calls[s] <= 1
          /\ (join_calls[s] > 0) => created[s]
    /\ (cpc = "create") => \A s \in 0 .. (ci - 1) : pthread_info[s] \in {0, EAGAIN}
    /\ (cpc = "reap_mem" \/ (cpc = "returned" /\ mem = "unmapped")) =>
          \A s \in Slots : created[s] => (join_calls[s] = 1)

\* C9: once thread_terminate is true a worker begins at most one more
\* method call and then exits, and the controller joins the workers and
\* stress_memthrash_child returns.
C9_TerminateEndsPool ==
    /\ [](\A s \in Slots : w_after[s] <= 1)
    /\ (thread_terminate ~> (cpc = "returned"))

\* C10: when every worker of the pool has left its loop and no SIGALRM
\* came from outside, the SIGALRM the workers send gets the controller out
\* of pause(), and it joins them and returns.
C10_WorkerExitWakesController ==
    ( /\ cpc = "pause"
      /\ ~ext_alarm
      /\ \E s \in Slots : created[s]
      /\ \A s \in Slots : created[s] => (wpc[s] \in {"w_kill", "w_done"}) )
    ~> (cpc = "returned")

\* the pool was torn down through the reap label
PoolReaped ==
    \/ cpc = "join"
    \/ (cpc = "reap_mem" /\ mem = "mapped")
    \/ mem = "unmapped"

WorkerRunning(s) == created[s] /\ wpc[s] # "w_done"

\* C25: the arena is mapped before the first worker is created and is
\* unmapped only after every created worker has been joined: a worker
\* that runs finds the arena mapped; mmap succeeds at most once in a run
\* and the arena, once unmapped, stays unmapped.
C25_ArenaOutlivesWorkers ==
    /\ [](\A s \in Slots :
            /\ created[s] => (\E k \in 1 .. Len(mmap_log) : mmap_log[k].ok)
            /\ WorkerRunning(s) => (mem = "mapped")
            /\ (created[s] /\ mem = "unmapped") =>
                  (wpc[s] = "w_done" /\ join_calls[s] = 1))
    /\ [](Cardinality({k \in 1 .. Len(mmap_log) : mmap_log[k].ok}) <= 1)
    /\ [][(mem = "mapped") => (mem' \in {"mapped", "unmapped"})]_vars
    /\ [][(mem = "unmapped") => (mem' = "unmapped")]_vars

\* the arena was unmapped after two workers had been created and joined
C25_Witness ==
    /\ mem = "unmapped"
    /\ cpc = "returned"
    /\ \A s \in Slots : created[s] /\ join_calls[s] = 1
    /\ max_threads = MaxThreads

InitSpecPool ==
    InitPool /\ InitDispatchIdle /\ InitMethodIdle /\ InitFilterIdle /\ InitOpcodeIdle
    /\ InitTlbIdle
    /\ InitRaceIdle
    /\ InitGenIdle

SpecPool == InitSpecPool /\ [][NextPool]_vars

FairPool ==
    /\ SpecPool
    /\ WF_vars(Controller)
    /\ \A s \in 0 .. (MaxThreads - 1) : WF_vars(s \in Slots /\ Worker(s))
    /\ WF_vars(HandleAlarm)

InitSpecFilter ==
    InitCalcIdle /\ InitDispatchIdle /\ InitMethodIdle /\ InitPoolIdle /\ InitFilter
    /\ InitOpcodeIdle
    /\ InitTlbIdle
    /\ InitRaceIdle
    /\ InitGenIdle

SpecFilter == InitSpecFilter /\ [][NextFilter]_vars

(***************************************************************************)
(* Claims about the sandbox of stress_opcode()                             *)
(***************************************************************************)
\* the stage of the attempt's state machine a logged step belongs to
StageOf(step) ==
    IF step \in {"DUMPABLE_OFF", "DROP_CAPS", "FILTER"} THEN "RESTRICT"
    ELSE IF step \in {"HANDLERS", "TIMER"} THEN "ARM_WATCHDOG"
    ELSE step

StageOrder ==
    << "ALLOCATE", "GUARD", "GENERATE", "PROTECT_EXEC", "RESTRICT",
       "ARM_WATCHDOG", "EXECUTE" >>

StageRank(stage) == CHOOSE r \in 1 .. Len(StageOrder) : StageOrder[r] = stage

\* the steps before the execute loop, in the order of the source
SetupSteps ==
    << "DUMPABLE_OFF", "DROP_CAPS", "HANDLERS", "ALLOCATE", "GUARD",
       "GENERATE", "PROTECT_EXEC", "TIMER" >>

InteriorPages == 1 .. (PAGES - 2)

GuardPages == {0, PAGES - 1}

\* C13: after GUARD the first and the last page are no-access and every
\* interior page is writable; after PROTECT_EXEC every interior page is
\* read+execute, the guard pages are still no-access and no page is both
\* writable and executable.
C13_GuardAndExecProtections ==
    /\ (kid.pc = "c_generate") =>
          /\ \A p \in GuardPages : kid.prot[p] = {}
          /\ \A p \in InteriorPages : "W" \in kid.prot[p]
    /\ (kid.pc \in {"c_setitimer", "c_close", "c_loop", "c_seccomp", "c_inc",
                    "c_call", "c_gen", "c_spin"}) =>
          /\ \A p \in InteriorPages : kid.prot[p] = {"R", "X"}
          /\ \A p \in GuardPages : kid.prot[p] = {}
          /\ \A p \in 0 .. (PAGES - 1) : ~({"W", "X"} \subseteq kid.prot[p])

\* C15: the parent counts one operation for every child it forked,
\* whatever the child's status, and goes on to its loop condition; the
\* return code is EXIT_SUCCESS unless the first mmap or a fork failed.
C15_EveryChildCountedOnce ==
    /\ [](par.counter = IF par.pc \in {"wait", "kill", "rewait", "count"}
                        THEN par.forks - 1 ELSE par.forks)
    /\ [][(par.pc = "count" /\ par'.pc # "count") =>
             (par'.pc = "while" /\ par'.counter = par.counter + 1)]_vars
    /\ []((par.pc = "returned") =>
             \/ par.rc = EXIT_SUCCESS
             \/ /\ par.rc = EXIT_NO_RESOURCE
                /\ (op_page = "MAP_FAILED" \/ par.last_fork = "gaveup"))

\* two children were counted, the last one ended by a signal of the parent
C15_Witness ==
    /\ par.pc = "returned"
    /\ par.rc = EXIT_SUCCESS
    /\ par.counter = 2
    /\ kid.status = "SIGKILL"

\* C16: every sandbox attempt ends and the parent's wait for it returns,
\* whatever the generated code does; a child that has ended does not run
\* again.
C16_AttemptTerminates ==
    /\ (ChildAlive ~> ~ChildAlive)
    /\ ((par.pc = "wait") ~> (par.pc # "wait"))

\* C17: a child in which a call the harness depends on has failed
\* (dropping capabilities, installing a handler, mapping the buffer, arming
\* the timer, installing the syscall filter) has exited and has executed
\* no generated code.
C17_SetupFailureAborts ==
    (kid.failed # "none") => (kid.pc = "c_dead" /\ kid.executed = 0)

\* C18: with the "inc" generator and an 8-bit opcode size every byte of
\* [ops_begin, ops_end) holds the low 8 bits of the counter after GENERATE.
C18_IncFillsInterior ==
    (kid.pc = "c_protect_exec" /\ par.size = 8
        /\ opcode_method_name = <<"i", "n", "c">>) =>
        \A b \in kid.ops_begin .. (ops_end - 1) : kid.mem[b] = op % 256

\* C19: the counter values two consecutive children start with differ by
\* exactly one modulo 2^STRESS_OPCODE_SIZE.
C19_CounterAdvancesOncePerFork ==
    \A k \in 2 .. Len(par.op_at_fork) :
        par.op_at_fork[k] = (par.op_at_fork[k - 1] + 1) % OpcodeModulus

\* C20 as stated: a fork failure that is retried counts no operation; a
\* fork failure that is not retried ends stress_opcode with
\* EXIT_NO_RESOURCE; the counter page is unmapped on every exit path.
C20_ForkFailureEndsNoResource ==
    /\ (par.last_fork = "retried") => (par.pc = "again" /\ par.counter = par.forks)
    /\ (par.last_fork = "gaveup") => (par.pc \in {"finish", "err", "returned"})
    /\ (par.last_fork = "gaveup" /\ par.pc = "returned") =>
          (par.rc = EXIT_NO_RESOURCE)
    /\ (par.pc = "returned" /\ op_page # "MAP_FAILED") => (op_page = "unmapped")

\* C20 (amended): a fork failure that is retried counts no operation; a
\* fork failure that is not retried ends stress_opcode, with
\* EXIT_NO_RESOURCE when keep_stressing(args) still held at the failure and
\* with EXIT_SUCCESS when it did not; the counter page is unmapped on every
\* exit path that mapped it, and only there.
C20_ForkFailurePolicy ==
    /\ (par.last_fork = "retried") => (par.pc = "again" /\ par.counter = par.forks)
    /\ (par.last_fork = "gaveup") => (par.pc \in {"finish", "err", "returned"})
    /\ (par.last_fork = "gaveup" /\ par.pc = "returned") =>
          (par.rc = IF par.fork_keep THEN EXIT_NO_RESOURCE ELSE EXIT_SUCCESS)
    /\ (par.pc = "returned" /\ op_page # "MAP_FAILED") => (op_page = "unmapped")
    /\ (op_page = "unmapped") => (par.pc = "returned")

\* a fork failed for good while the stressor was to keep stressing
C20_Witness ==
    /\ par.pc = "returned"
    /\ par.last_fork = "gaveup"
    /\ par.fork_keep
    /\ par.rc = EXIT_NO_RESOURCE
    /\ op_page = "unmapped"

\* C21 (as stated): the parent kills the child and waits again only when
\* the wait failed for a reason other than interruption: it is never about
\* to kill after a wait that failed with EINTR.
C21_KillOnlyOnNonInterruption ==
    (par.pc = "kill") => (par.wait_errno # EINTR)

\* C21 (amended): after a successful fork the parent waits; whenever the
\* wait fails, with EINTR as with any other errno, it kills the child and
\* waits again; the operation is counted only from the statement after the
\* wait or the re-wait, when the child has ended; and a child is forked only
\* when no earlier child is alive.
C21_KillOnEveryWaitFailure ==
    /\ [][(par.pc = "wait" /\ par'.pc # "wait")
            => \/ (par'.pc = "count" /\ kid.pc = "c_dead" /\ kid'.reaped)
               \/ (par'.pc = "kill" /\ par'.wait_errno \in {EINTR, EINVAL})]_vars
    /\ [][(par.pc = "kill" /\ par'.pc # "kill")
            => (par'.pc = "rewait" /\ ~ChildAlive')]_vars
    /\ [][(par.pc = "rewait" /\ par'.pc # "rewait") => (par'.pc = "count")]_vars
    /\ [][(par'.counter # par.counter) => (par.pc = "count" /\ ~ChildAlive)]_vars
    /\ [][(par.pc = "again" /\ par'.pc = "wait") => ~ChildAlive]_vars

\* a child was killed after an interrupted wait, and its operation counted
C21_Witness ==
    /\ par.pc = "while"
    /\ par.counter = par.forks
    /\ kid.pc = "c_dead"
    /\ kid.status \in {"SIGTERM", "SIGKILL"}

\* C24: while control is in generated code the child has dropped its
\* capabilities, disabled core dumps, installed stress_badhandler for
\* every signal of sigs[], armed the interval timer, made the page it
\* executes read+execute and installed the syscall filter.
C24_RestrictedBeforeExecute ==
    (kid.pc \in {"c_gen", "c_spin"}) =>
        /\ kid.caps_dropped
        /\ ~kid.dumpable
        /\ kid.handlers = SIZEOF_sigs
        /\ kid.timer_armed
        /\ kid.prot[PageOf(kid.ops_begin)] = {"R", "X"}
        /\ kid.filter_installed

\* C26: a child whose set-up calls all succeeded and whose generated code
\* does not fault runs every one of the page_size / opcode_bytes slots and
\* exits with status 0: the statements of the loop itself end the child
\* only after the last slot, with status 0; and every entry point is
\* ops_begin + i * opcode_bytes, in a page of the interior.
C26_AllSlotsRun ==
    /\ [][(/\ KLoop \/ KSeccomp \/ KInc
           /\ kid.failed = "none"
           /\ kid'.pc = "c_dead")
            => (kid'.status = "exit_0" /\ kid'.executed = opcode_loops)]_vars
    /\ [](kid.pc \in {"c_call", "c_gen", "c_spin"} =>
            /\ PageOf(kid.ops_begin) \in InteriorPages
            /\ kid.ops_begin = ((BufferBytes \div PAGES) + kid.i * opcode_bytes))

InitSpecOpcode ==
    InitCalcIdle /\ InitDispatchIdle /\ InitMethodIdle /\ InitPoolIdle /\ InitFilterIdle
    /\ InitOpcode
    /\ InitTlbIdle
    /\ InitRaceIdle
    /\ InitGenIdle

SpecOpcode == InitSpecOpcode /\ [][NextOpcode]_vars

\* the scheduler runs the parent and the child, and the kernel delivers
\* the timer signal; no signal from outside is promised
FairOpcode ==
    /\ SpecOpcode
    /\ WF_vars(Parent)
    /\ WF_vars(Child)
    /\ WF_vars(KTimer)

(***************************************************************************)
(* The prime strides and the TLB method                                    *)
(***************************************************************************)
InitSpecTlb ==
    InitCalcIdle /\ InitDispatchIdle /\ InitMethodIdle /\ InitPoolIdle /\ InitFilterIdle
    /\ InitOpcodeIdle
    /\ InitTlbIdle
    /\ InitRaceIdle
    /\ InitGenIdle

SpecTlb == InitSpecTlb /\ [][NextTlb]_vars

RECURSIVE GCD(_, _)
GCD(a, b) == IF b = 0 THEN a ELSE GCD(b, a % b)

\* the entries stress_memthrash_find_primes has stored so far
FilledEntries == 0 .. (fp_i - 1)

\* C22: the strides of the entries are pairwise distinct, and the stride of
\* an entry, counted in cache lines, is coprime with the number of cache
\* lines of the entry's region: it shares no factor with it and does not
\* divide it.
C22_StridesDistinctAndCoprime ==
    \A a \in FilledEntries :
       LET e == stress_memthrash_primes[a]
           lines == e.mem_size \div STRESS_CACHE_LINE_SIZE
           step == e.prime_stride \div STRESS_CACHE_LINE_SIZE
       IN /\ e.mem_size = 4 ^ (a + MATRIX_SIZE_MIN_SHIFT)
          /\ e.prime_stride = step * STRESS_CACHE_LINE_SIZE
          /\ GCD(step, lines) = 1
          /\ lines % step # 0
          /\ \A b \in FilledEntries :
                (a # b) => (stress_memthrash_primes[b].prime_stride # e.prime_stride)

\* the table is complete
C22_Witness ==
    /\ fp_i = MEM_SIZE_PRIMES
    /\ \A a \in 0 .. (MEM_SIZE_PRIMES - 1) : stress_memthrash_primes[a].prime_stride > 0

\* C27: for every region size 4^j a worker passes, the lookup finds an
\* entry, so the default stride is not used; and in a pass of cache_lines
\* steps k stays in the region at the offset within its cache line, does
\* not come back to its start before the pass is over and is back at its
\* start when the pass is over: the cache_lines addresses touched lie in
\* cache_lines different cache lines, every cache line exactly once.
C27_TlbPassTouchesEveryLineOnce ==
    /\ (t_mem_size # 0) => (t_found /\ t_stride # tlb_default_stride)
    /\ (tpc \in {"read", "write"}) =>
        /\ t_k \in 0 .. (t_mem_size - 1)
        /\ t_k % STRESS_CACHE_LINE_SIZE = t_offset
        /\ (t_j \in 1 .. (tlb_cache_lines(t_mem_size) - 1)) => (t_k # t_offset)
        /\ (t_j = tlb_cache_lines(t_mem_size)) => (t_k = t_offset)

\* the pass of writes over a region is over
C27_Witness ==
    /\ tpc = "write"
    /\ t_found
    /\ t_mem_size = 4 ^ MATRIX_SIZE_MIN_SHIFT
    /\ t_j = tlb_cache_lines(t_mem_size)
    /\ t_k = t_offset
    /\ t_offset > 0

(***************************************************************************)
(* The rotation index of "all" under several workers                       *)
(***************************************************************************)
InitSpecAllRace ==
    InitCalcIdle /\ InitDispatchIdle /\ InitMethodIdle /\ InitPoolIdle /\ InitFilterIdle
    /\ InitOpcodeIdle
    /\ InitTlbIdle
    /\ InitRaceIdle
    /\ InitGenIdle

SpecAllRace == InitSpecAllRace /\ [][NextAllRace]_vars

\* a worker is between a load of i and the store that depends on it
Mutating(t) == apc[t] \in {"a_inc_store", "a_wrap_store"}

\* C23: with several workers in "all", i is mutated by one thread at a
\* time, and every index memthrash_methods[] is called with is in 1 .. N-1.
C23_AllIndexInRange ==
    /\ \A t \in AllThreads, u \in AllThreads :
          (Mutating(t) /\ Mutating(u)) => (t = u)
    /\ \A t \in AllThreads :
          (apc[t] = "a_in_method") => (a_idx[t] \in 1 .. (SIZEOF_memthrash_methods - 1))

(***************************************************************************)
(* The opcode generators                                                   *)
(***************************************************************************)
InitSpecGen ==
    InitCalcIdle /\ InitDispatchIdle /\ InitMethodIdle /\ InitPoolIdle /\ InitFilterIdle
    /\ InitOpcodeIdle
    /\ InitTlbIdle
    /\ InitRaceIdle
    /\ InitGenIdle

SpecGen == InitSpecGen /\ [][NextGen]_vars

\* C28: every store of a generator goes to [ops_begin, ops_end), so none
\* goes to the guard page below or the guard page above, for the page
\* sizes 64 * n; and the text generator reads inside [text_start, text_end).
C28_GeneratorsStayInside ==
    /\ (g_lo # NoValue) =>
          /\ gen_ops_begin(g_page_size) <= g_lo
          /\ g_hi <= gen_ops_end(g_page_size)
    /\ (g_rd_lo # NoValue) =>
          /\ 0 <= g_rd_lo
          /\ g_rd_hi <= g_text_size

\* the text generator has copied from the text and gone over every byte
C28_Witness ==
    /\ g_pc = "done"
    /\ g_func = "stress_opcode_text"
    /\ g_rd_lo > 0
    /\ g_lo = gen_ops_begin(g_page_size)
    /\ g_hi = gen_ops_end(g_page_size)

\* the word with the 64 bits of x in reverse order, and the complement
bit_reversal(x) == { 63 - b : b \in x }
complement64(x) == Bits64 \ x

\* the seed (or the random word), its complement, its Gray code and its
\* bit reversal
stated_words(w) ==
    << w, complement64(w), xor64(shr64(w, 1), w), bit_reversal(w) >>

\* C29: a block of "mixed" is the seed, its complement, its Gray code and
\* its 64 bit reversal, then a random word and the same three transforms
\* of it; reverse64(x) is the reversal of the 64 bits of x.
C29_MixedBlock ==
    /\ (g_block # << >>) =>
          /\ Len(g_block) = 8
          /\ SubSeq(g_block, 1, 4) = stated_words(g_tmp)
          /\ SubSeq(g_block, 5, 8) = stated_words(g_block[5])
          /\ reverse64(g_tmp) = bit_reversal(g_tmp)
          /\ reverse64(g_block[5]) = bit_reversal(g_block[5])

====
